---- MODULE Spec2Model ----
(***************************************************************************)
(* Semantic analysis of micro-c: the cast engine (analysis/casting.rs),    *)
(* the scoped symbol table (analysis/symbols.rs), the type-specifier scan  *)
(* and the orchestrator (analysis/mod.rs) and the declaration validators   *)
(* (analysis/declarations.rs).                                             *)
(*                                                                         *)
(* A value of a Rust enum is a record whose first field names the variant, *)
(* an Option is <<>> (None) or <<v>> (Some(v)), a HashMap is a function.   *)
(* A Span is the number of the construct it locates.  The cast engine only *)
(* copies the span it is given, so its expressions are written without.    *)
(* In the symbol table an InternedStr is written as its text: the maps are *)
(* keyed by content.                                                       *)
(***************************************************************************)
EXTENDS Naturals, Sequences, FiniteSets, TLC

VARIABLES
    interner,   \* str_intern: the pool of interned texts, in order of first interning
    names,      \* the InternedStr handles the program obtained, one per intern call
    scope,      \* GlobalValidator.scope / a SymbolResolver: the current scope, owning its parent chain
    reporter,   \* the diagnostic sink: [errors, warnings]
    ast,        \* GlobalValidator.ast: the top-level declarations, in source order
    pc,         \* validate: index of the next top-level item of the walk
    globals,    \* validate: the globals mapping
    functions,  \* validate: the functions mapping
    structs,    \* validate: the structs mapping
    outcome,    \* validate: what was returned ("none" while running)
    call,       \* the last operation called, with its arguments
    ret,        \* what that operation returned
    hist        \* history of the run (ghost): counters and sets the claims speak about

vars == <<interner, names, scope, reporter, ast, pc, globals, functions, structs,
          outcome, call, ret, hist>>

(***************************************************************************)
(* Bounds of the model.                                                    *)
(***************************************************************************)
MaxArray == 2
MaxInterned == 2
MaxSpecifiers == 3
MaxDecls == 2
MaxPushes == 2
MaxItems == 2
MaxStmts == 4
MaxQualifiers == 2

(***************************************************************************)
(* Results.  A Rust panic (unreachable!, expect, panic!) is an outcome of  *)
(* its own: it is neither Ok nor Err.                                      *)
(***************************************************************************)
Ok(v) == [tag |-> "Ok", value |-> v]
Err(e) == [tag |-> "Err", error |-> e]
Panic == [tag |-> "Panic"]
NoCall == [op |-> "none"]

\* A value that is computed once and used under a name.
With(v, K(_)) == K(v)

\* The `?` of the code: a result that is not Ok is handed on as it is.
Try(r, K(_)) == IF r.result.tag # "Ok" THEN r ELSE K(r)
NoRet == [tag |-> "None"]

(***************************************************************************)
(* String interning.  intern(text) returns the handle of text in the pool, *)
(* adding text to the pool when it is new; two handles are equal exactly   *)
(* when they are the same pool entry.                                      *)
(***************************************************************************)
PoolIndex(pool, text) == CHOOSE i \in 1..Len(pool) : pool[i] = text

intern(pool, text) ==
    IF \E i \in 1..Len(pool) : pool[i] = text
    THEN [pool |-> pool, handle |-> PoolIndex(pool, text)]
    ELSE [pool |-> Append(pool, text), handle |-> Len(pool) + 1]

(***************************************************************************)
(* Type descriptors.  The flag of Char / Int / Long is the one the type    *)
(* scan calls unsigned.                                                    *)
(***************************************************************************)
Void == [k |-> "Void"]
Char(u) == [k |-> "Char", u |-> u]
Int(u) == [k |-> "Int", u |-> u]
Long(u) == [k |-> "Long", u |-> u]
Float == [k |-> "Float"]
Double == [k |-> "Double"]
Struct(ident) == [k |-> "Struct", ident |-> ident]

Basic == [d |-> "Basic"]
Pointer == [d |-> "Pointer"]
Array(n) == [d |-> "Array", size |-> n]

HlirType(kind, decl) == [kind |-> kind, decl |-> decl]

kind_is_numeric(kind) == kind.k \in {"Char", "Int", "Long", "Float", "Double"}

is_numeric(ty) ==
    /\ kind_is_numeric(ty.kind)
    /\ ty.decl.d # "Pointer"
    /\ ty.decl.d # "Array"

(***************************************************************************)
(* Typed expressions.  Literal and Variable stand for the expressions the  *)
(* cast engine is handed; Cast is the node it builds (the cast! macro).    *)
(***************************************************************************)
Literal(ty) == [node |-> "Literal", ty |-> ty, is_lval |-> FALSE]
Variable(ty) == [node |-> "Variable", ty |-> ty, is_lval |-> TRUE]
Cast(to, e) == [node |-> "Cast", to |-> to, operand |-> e, ty |-> to, is_lval |-> FALSE]

(***************************************************************************)
(* casting.rs: the numeric ladder.  0 stands for the unreachable!() of     *)
(* get_numeric_cast_hierarchy, Panic for that of demote / promote.         *)
(***************************************************************************)
get_numeric_cast_hierarchy(kind) ==
    CASE kind.k = "Double" -> 4
      [] kind.k = "Long" -> 3
      [] kind.k = "Int" -> 2
      [] kind.k = "Char" -> 1
      [] OTHER -> 0

demote_numeric(kind) ==
    CASE kind.k = "Double" -> Long(FALSE)
      [] kind.k = "Float" -> Int(FALSE)
      [] kind.k = "Long" -> Int(FALSE)
      [] kind.k = "Int" -> Char(FALSE)
      [] OTHER -> Panic

promote_numeric(kind) ==
    CASE kind.k = "Float" -> Double
      [] kind.k = "Long" -> Double
      [] kind.k = "Int" -> Long(FALSE)
      [] kind.k = "Char" -> Int(FALSE)
      [] OTHER -> Panic

\* The kind of the step below the outermost Cast, <<>> when the ranks are equal.
NumericStep(expr_level, cast_level, cast_kind) ==
    IF expr_level < cast_level THEN <<demote_numeric(cast_kind)>>
    ELSE IF expr_level > cast_level THEN <<promote_numeric(cast_kind)>>
    ELSE <<>>

RECURSIVE cast_numeric_to_numeric(_, _)
cast_numeric_to_numeric(cast_to, expr) ==
    IF \/ expr.ty.kind.k = "Double" /\ cast_to.kind.k = "Float"
       \/ expr.ty.kind.k = "Int" /\ cast_to.kind.k = "Float"
    THEN Cast(HlirType(Float, Basic), expr)
    ELSE
        LET expr_level == get_numeric_cast_hierarchy(expr.ty.kind)
            cast_level == get_numeric_cast_hierarchy(cast_to.kind)
        IN  IF expr_level = 0 \/ cast_level = 0 THEN Panic
            ELSE
                LET kind == NumericStep(expr_level, cast_level, cast_to.kind)
                IN  IF kind = <<>> THEN Cast(cast_to, expr)
                    ELSE IF kind[1] = Panic THEN Panic
                    ELSE
                        LET casted_lower ==
                                cast_numeric_to_numeric(HlirType(kind[1], Basic), expr)
                        IN  IF casted_lower = Panic THEN Panic
                            ELSE Cast(cast_to, casted_lower)

\* Ok(e) of an expression the numeric chain built; its panic is the caller's.
OkOrPanic(e) == IF e = Panic THEN Panic ELSE Ok(e)

explicit_cast(cast_ty, expr) ==
    IF cast_ty = expr.ty THEN Ok(expr)
    ELSE IF expr.ty.decl.d = "Array" /\ cast_ty.decl.d = "Pointer"
    THEN Ok(Cast(HlirType(cast_ty.kind, Pointer), expr))
    ELSE IF expr.ty.decl.d = "Pointer" /\ cast_ty.decl.d = "Pointer"
    THEN Ok(Cast(HlirType(cast_ty.kind, Basic), expr))
    ELSE IF expr.ty.decl.d = "Pointer" /\ cast_ty.kind.k = "Long" /\ cast_ty.decl.d = "Basic"
    THEN Ok(Cast(HlirType(Long(TRUE), Basic), expr))
    ELSE IF /\ expr.ty.decl.d = "Basic" /\ cast_ty.decl.d = "Basic"
            /\ is_numeric(expr.ty) /\ is_numeric(cast_ty)
    THEN OkOrPanic(cast_numeric_to_numeric(cast_ty, expr))
    ELSE Err("()")

\* implicit_cast without its first test (expr.ty == cast_to): a mutant.
implicit_cast_without_identity(cast_to, expr) ==
    IF /\ cast_to.decl.d = "Pointer"
       /\ expr.ty.kind.k = "Void" /\ expr.ty.decl.d = "Pointer"
    THEN Ok(Cast(HlirType(Void, Pointer), expr))
    ELSE IF /\ cast_to.decl.d = "Array" /\ expr.ty.decl.d = "Pointer"
            /\ cast_to.kind = expr.ty.kind
    THEN Ok(Cast(HlirType(expr.ty.kind, Pointer), expr))
    ELSE IF cast_to.decl.d = "Basic" /\ expr.ty.decl.d = "Basic"
    THEN OkOrPanic(cast_numeric_to_numeric(cast_to, expr))
    ELSE Err("()")

implicit_cast(cast_to, expr) ==
    IF expr.ty = cast_to THEN Ok(expr)
    ELSE IF /\ cast_to.decl.d = "Pointer"
            /\ expr.ty.kind.k = "Void" /\ expr.ty.decl.d = "Pointer"
    THEN Ok(Cast(HlirType(Void, Pointer), expr))
    ELSE IF /\ cast_to.decl.d = "Array" /\ expr.ty.decl.d = "Pointer"
            /\ cast_to.kind = expr.ty.kind
    THEN Ok(Cast(HlirType(expr.ty.kind, Pointer), expr))
    ELSE IF cast_to.decl.d = "Basic" /\ expr.ty.decl.d = "Basic"
    THEN OkOrPanic(cast_numeric_to_numeric(cast_to, expr))
    ELSE Err("()")

(***************************************************************************)
(* symbols.rs: the scoped symbol table.  A SymbolResolver owns its parent, *)
(* so the current scope is a record that holds the whole chain.            *)
(***************************************************************************)
Insert(map, key, value) == (key :> value) @@ map
Remove(map, key) == [k \in DOMAIN map \ {key} |-> map[k]]

FunctionSymbol(location, return_ty, varargs, params) ==
    [sym |-> "Function", location |-> location, return_ty |-> return_ty,
     varargs |-> varargs, params |-> params]

VariableSymbol(ty, is_const, is_initialized, array_size) ==
    [sym |-> "Variable", ty |-> ty, is_const |-> is_const,
     is_initialized |-> is_initialized, array_size |-> array_size]

StructSymbol(size, as_type, body) ==
    [sym |-> "Struct", size |-> size, as_type |-> as_type, body |-> body]

BUILTINS ==
    <<  <<"printf", FunctionSymbol(<<"stdio.h">>, HlirType(Void, Basic), TRUE,
                                   <<HlirType(Char(TRUE), Pointer)>>)>>,
        <<"malloc", FunctionSymbol(<<"stdlib.h">>, HlirType(Void, Basic), FALSE,
                                   <<HlirType(Int(TRUE), Basic)>>)>>,
        <<"free", FunctionSymbol(<<"stdlib.h">>, HlirType(Void, Basic), FALSE,
                                 <<HlirType(Void, Pointer)>>)>> >>

\* SymbolResolver::new
new(parent) == [un_accessed_items |-> <<>>, symbols |-> <<>>, parent |-> parent]

RECURSIVE InsertAll(_, _, _)
InsertAll(map, pairs, i) ==
    IF i > Len(pairs) THEN map
    ELSE InsertAll(Insert(map, pairs[i][1], pairs[i][2]), pairs, i + 1)

\* init_builtins that also enters the built-ins in un_accessed_items: a mutant.
init_builtins_tracking_unused(self) ==
    [self EXCEPT !.symbols = InsertAll(self.symbols, BUILTINS, 1),
                 !.un_accessed_items =
                    InsertAll(self.un_accessed_items,
                              [n \in 1..Len(BUILTINS) |-> <<BUILTINS[n][1], 0>>], 1)]

init_builtins(self) == [self EXCEPT !.symbols = InsertAll(self.symbols, BUILTINS, 1)]

create_root == init_builtins(new(<<>>))

remove_self(self) == self.parent

RECURSIVE Visible(_, _)
Visible(self, ident) ==
    \/ ident \in DOMAIN self.symbols
    \/ self.parent # <<>> /\ Visible(self.parent[1], ident)

\* add_symbol testing the whole parent chain for the identifier: a mutant.
add_symbol_checking_ancestors(self, ident, kind, span) ==
    IF Visible(self, ident)
    THEN [self |-> self, result |-> Err([e |-> "IdentifierExists", span |-> span])]
    ELSE IF kind.sym # "Function" /\ ident = "main"
    THEN [self |-> self, result |-> Err([e |-> "MainIsReserved", span |-> span])]
    ELSE [self |-> [self EXCEPT
                        !.symbols = Insert(@, ident, kind),
                        !.un_accessed_items =
                            IF ident # "main" THEN Insert(@, ident, span) ELSE @],
          result |-> Ok("()")]

add_symbol(self, ident, kind, span) ==
    IF ident \in DOMAIN self.symbols
    THEN [self |-> self, result |-> Err([e |-> "IdentifierExists", span |-> span])]
    ELSE IF kind.sym # "Function" /\ ident = "main"
    THEN [self |-> self, result |-> Err([e |-> "MainIsReserved", span |-> span])]
    ELSE [self |-> [self EXCEPT
                        !.symbols = Insert(@, ident, kind),
                        !.un_accessed_items =
                            IF ident # "main" THEN Insert(@, ident, span) ELSE @],
          result |-> Ok("()")]

add_function(self, ident, return_ty, params, span) ==
    add_symbol(self, ident, FunctionSymbol(<<>>, return_ty, FALSE, params), span)

add_variable(self, ident, ty, is_const, is_initialized, array_size, span) ==
    add_symbol(self, ident, VariableSymbol(ty, is_const, is_initialized, array_size), span)

get_unused_idents(self) ==
    {<<ident, self.un_accessed_items[ident]>> : ident \in DOMAIN self.un_accessed_items}

\* retrieve that never asks the parent: a mutant.
retrieve_own_scope_only(self, ident, span) ==
    IF ident \in DOMAIN self.symbols
    THEN [self |-> [self EXCEPT !.un_accessed_items = Remove(@, ident)],
          result |-> Ok(self.symbols[ident])]
    ELSE [self |-> self,
          result |-> Err([e |-> "IdentNotFound", ident |-> ident, span |-> span])]

RECURSIVE retrieve(_, _, _)
retrieve(self, ident, span) ==
    IF ident \in DOMAIN self.symbols
    THEN [self |-> [self EXCEPT !.un_accessed_items = Remove(@, ident)],
          result |-> Ok(self.symbols[ident])]
    ELSE IF self.parent # <<>>
    THEN With(retrieve(self.parent[1], ident, span), LAMBDA r :
            [self |-> [self EXCEPT !.parent = <<r.self>>], result |-> r.result])
    ELSE [self |-> self,
          result |-> Err([e |-> "IdentNotFound", ident |-> ident, span |-> span])]

\* validate_function_call answering with the error of get_variable_type: a mutant.
validate_function_call_wrong_error(self, ident, span) ==
    Try(retrieve(self, ident, span), LAMBDA r :
        IF r.result.value.sym = "Function" THEN r
        ELSE [self |-> r.self, result |-> Err([e |-> "NotAVariable", span |-> span])])

validate_function_call(self, ident, span) ==
    Try(retrieve(self, ident, span), LAMBDA r :
        IF r.result.value.sym = "Function" THEN r
        ELSE [self |-> r.self, result |-> Err([e |-> "NotAFunction", span |-> span])])

get_variable_type(self, ident, span) ==
    Try(retrieve(self, ident, span), LAMBDA r :
        IF r.result.value.sym = "Variable"
        THEN [self |-> r.self, result |-> Ok(r.result.value.ty)]
        ELSE [self |-> r.self, result |-> Err([e |-> "NotAVariable", span |-> span])])

\* The loop of add_struct over the fields from index i: the body map, or the
\* MemberAlreadyExists error.  The map is tested for the struct's own ident.
RECURSIVE struct_body(_, _, _, _, _)
struct_body(body, fields, i, ident, span) ==
    IF i > Len(fields) THEN Ok(body)
    ELSE
        LET field == fields[i]
            array_size == IF field.ty.decl.d = "Array" THEN <<field.ty.decl.size>> ELSE <<>>
            var == VariableSymbol(field.ty, field.is_const, field.initializer # <<>>,
                                  array_size)
        IN  IF ident \in DOMAIN body
            THEN Err([e |-> "MemberAlreadyExists", ident |-> ident, span |-> span])
            ELSE struct_body(Insert(body, field.ident, var), fields, i + 1, ident, span)

add_struct(self, as_type, _struct, span) ==
    IF as_type.kind.k # "Struct" \/ as_type.kind # Struct(_struct.ident)
    THEN [self |-> self, result |-> Panic]
    ELSE With(struct_body(<<>>, _struct.fields, 1, _struct.ident, span), LAMBDA body :
            IF body.tag = "Err" THEN [self |-> self, result |-> body]
            ELSE add_symbol(self, _struct.ident,
                            StructSymbol(_struct.size, as_type, body.value), span))

check_valid_assignment(self, ident, ty, span) ==
    Try(retrieve(self, ident, span), LAMBDA r :
        IF r.result.value.sym # "Variable"
        THEN [self |-> r.self, result |-> Err([e |-> "LeftHandNotLVal", span |-> span])]
        ELSE IF r.result.value.ty # ty
        THEN [self |-> r.self,
              result |-> Err([e |-> "VariableTypeMismatch", span |-> span, ty |-> ty,
                              var_ty |-> r.result.value.ty])]
        ELSE IF r.result.value.is_const
        THEN [self |-> r.self, result |-> Err([e |-> "ConstAssignment", span |-> span])]
        ELSE [self |-> r.self, result |-> Ok("()")])

get_struct(self, ident, span) ==
    Try(retrieve(self, ident, span), LAMBDA r :
        IF r.result.value.sym = "Struct" THEN r
        ELSE [self |-> r.self, result |-> Err([e |-> "NotAStruct", span |-> span])])

\* HlirExprKind::Member: the node of a member access.
Member(_struct, member, ty) ==
    [node |-> "Member", operand |-> _struct, member |-> member, ty |-> ty, is_lval |-> TRUE]

\* validate_struct_member_access typing the node as the struct, not the field: a mutant.
validate_struct_member_access_typed_as_struct(self, _struct, member) ==
    IF _struct.value.ty.kind.k # "Struct" THEN [self |-> self, result |-> Panic]
    ELSE Try(get_struct(self, _struct.value.ty.kind.ident, _struct.location), LAMBDA r :
            IF member.value \notin DOMAIN r.result.value.body
            THEN [self |-> r.self,
                  result |-> Err([e |-> "MemberNotFound", member |-> member.value,
                                  ident |-> _struct.value.ty.kind.ident,
                                  span |-> member.location])]
            ELSE [self |-> r.self,
                  result |-> Ok(Member(_struct.value, member.value,
                                       r.result.value.as_type))])

\* _struct and member are Locatable: [value, location].
validate_struct_member_access(self, _struct, member) ==
    IF _struct.value.ty.kind.k # "Struct" THEN [self |-> self, result |-> Panic]
    ELSE Try(get_struct(self, _struct.value.ty.kind.ident, _struct.location), LAMBDA r :
            IF member.value \notin DOMAIN r.result.value.body
            THEN [self |-> r.self,
                  result |-> Err([e |-> "MemberNotFound", member |-> member.value,
                                  ident |-> _struct.value.ty.kind.ident,
                                  span |-> member.location])]
            ELSE [self |-> r.self,
                  result |-> Ok(Member(_struct.value, member.value,
                                       r.result.value.body[member.value].ty))])

(***************************************************************************)
(* util/error.rs: the diagnostic sink.                                     *)
(***************************************************************************)
Reporter == [errors |-> <<>>, warnings |-> <<>>]

get_status(rep) == IF rep.errors = <<>> THEN Ok("()") ELSE Err("()")

(***************************************************************************)
(* mod.rs: the validator.  self is [scope, reporter, dropped]; dropped is  *)
(* history: the un_accessed_items of every scope pop_scope discarded.      *)
(* A method returns [self, result].                                        *)
(***************************************************************************)
GlobalValidator(sc, rep, dropped) == [scope |-> sc, reporter |-> rep, dropped |-> dropped]

report_error(self, error) == [self EXCEPT !.reporter.errors = Append(@, error)]

report_warning(self, warning) == [self EXCEPT !.reporter.warnings = Append(@, warning)]

\* The un_accessed_items of a scope, each with the kind of its symbol.
Unused(sc) ==
    {[ident |-> i, span |-> sc.un_accessed_items[i], sym |-> sc.symbols[i].sym] :
        i \in DOMAIN sc.un_accessed_items}

\* pop_scope that leaves the scope as it is: a mutant.
pop_scope_keeping_scope(self) == self

\* push_scope with the new scope left without a parent: a mutant.
push_scope_without_parent(self) == [self EXCEPT !.scope = new(<<>>)]

push_scope(self) == [self EXCEPT !.scope = new(<<self.scope>>)]

\* The validator after pop_scope, or Panic ("Popped scope on global scope.").
pop_scope(self) ==
    LET parent == remove_self(self.scope)
    IN  IF parent = <<>> THEN Panic
        ELSE [self EXCEPT !.scope = parent[1],
                          !.dropped = @ \cup Unused(self.scope)]

\* The check of a call against the Function entry: the arguments at the fixed
\* parameter positions have the parameter types, and without varargs there are
\* exactly as many arguments as parameters.
resolve_call(self, ident, args, span) ==
    Try(validate_function_call(self, ident, span), LAMBDA r :
        LET func == r.result.value
            mismatch == \E n \in 1..Len(func.params) :
                            n > Len(args) \/ args[n] # func.params[n]
            count == ~func.varargs /\ Len(args) # Len(func.params)
        IN  IF mismatch \/ count
            THEN [self |-> r.self,
                  result |-> Err([e |-> "FunctionTypeMismatch", span |-> span])]
            ELSE r)

(***************************************************************************)
(* mod.rs: validate_type, the scan over the type specifiers.  A specifier  *)
(* is [t |-> "Int"], ..., [t |-> "Struct", ident |-> name].                *)
(***************************************************************************)
DeclarationSpecifier(specifiers, qualifiers, ty, pointer) ==
    [specifiers |-> specifiers, qualifiers |-> qualifiers, ty |-> ty, pointer |-> pointer]

\* seen_signed_or_unsigned! with its two errors exchanged: a mutant.
seen_signed_or_unsigned_exchanged(ty_spec, unsigned, location) ==
    IF ty_spec = <<>>
    THEN Err([e |-> "TypeCannotBeSignedOrUnsigned", ty |-> "", span |-> location])
    ELSE CASE ty_spec[1].t = "Char" -> Ok(Char(unsigned))
           [] ty_spec[1].t = "Int" -> Ok(Int(unsigned))
           [] ty_spec[1].t = "Long" -> Ok(Long(unsigned))
           [] OTHER -> Err([e |-> "ExpectedTypeSpecifier", span |-> location])

\* seen_signed_or_unsigned!: the specifier after signed / unsigned.
seen_signed_or_unsigned(ty_spec, unsigned, location) ==
    IF ty_spec = <<>>
    THEN Err([e |-> "ExpectedTypeSpecifier", span |-> location])
    ELSE CASE ty_spec[1].t = "Char" -> Ok(Char(unsigned))
           [] ty_spec[1].t = "Int" -> Ok(Int(unsigned))
           [] ty_spec[1].t = "Long" -> Ok(Long(unsigned))
           [] OTHER -> Err([e |-> "TypeCannotBeSignedOrUnsigned", ty |-> ty_spec[1].t,
                            span |-> location])

\* The loop of validate_type from `state`, the iterator standing before ty[i]:
\* [tag |-> "End", kind, i], Err(error) or Panic.
RECURSIVE type_scan(_, _, _, _)
type_scan(state, ty, i, location) ==
    LET ty_spec == IF i <= Len(ty) THEN <<ty[i]>> ELSE <<>>
        next == IF i <= Len(ty) THEN i + 1 ELSE i
        End(kind) == [tag |-> "End", kind |-> kind, i |-> next]
        Seen(r) == IF r.tag = "Ok" THEN End(r.value) ELSE r
    IN  CASE state = "Start" ->
                (IF ty_spec = <<>> THEN Panic
                 ELSE CASE ty_spec[1].t = "Void" -> End(Void)
                        [] ty_spec[1].t = "Char" -> End(Char(FALSE))
                        [] ty_spec[1].t = "Int" -> End(Int(FALSE))
                        [] ty_spec[1].t = "Long" -> End(Long(FALSE))
                        [] ty_spec[1].t = "Double" -> End(Double)
                        [] ty_spec[1].t = "Struct" -> End(Struct(ty_spec[1].ident))
                        [] ty_spec[1].t = "Signed" -> type_scan("SeenSigned", ty, next, location)
                        [] ty_spec[1].t = "Unsigned" ->
                            type_scan("SeenUnsigned", ty, next, location))
          [] state = "SeenUnsigned" -> Seen(seen_signed_or_unsigned(ty_spec, TRUE, location))
          [] state = "SeenSigned" -> Seen(seen_signed_or_unsigned(ty_spec, FALSE, location))

\* validate_type without its test for a token after the complete type: a mutant.
validate_type_ignoring_rest(self, declaration, location, is_function_return_ty) ==
    With(type_scan("Start", declaration.ty, 1, location), LAMBDA scan :
        IF scan = Panic THEN [self |-> self, result |-> Panic]
        ELSE IF scan.tag = "Err"
        THEN [self |-> report_error(self, scan.error), result |-> Err("()")]
        ELSE
            LET ty_kind == scan.kind
                ty_dec == IF declaration.pointer THEN Pointer ELSE Basic
            IN  IF ~is_function_return_ty /\ ty_kind = Void /\ ty_dec # Pointer
                THEN [self |-> report_error(self, [e |-> "IncompleteType", span |-> location]),
                      result |-> Err("()")]
                ELSE [self |-> self, result |-> Ok(HlirType(ty_kind, ty_dec))])

validate_type(self, declaration, location, is_function_return_ty) ==
    With(type_scan("Start", declaration.ty, 1, location), LAMBDA scan :
        IF scan = Panic THEN [self |-> self, result |-> Panic]
        ELSE IF scan.tag = "Err"
        THEN [self |-> report_error(self, scan.error), result |-> Err("()")]
        ELSE IF scan.i <= Len(declaration.ty)
        THEN [self |-> report_error(self, [e |-> "InvalidTypeSpecifier", span |-> location]),
              result |-> Err("()")]
        ELSE
            LET ty_kind == scan.kind
                ty_dec == IF declaration.pointer THEN Pointer ELSE Basic
            IN  IF ~is_function_return_ty /\ ty_kind = Void /\ ty_dec # Pointer
                THEN [self |-> report_error(self, [e |-> "IncompleteType", span |-> location]),
                      result |-> Err("()")]
                ELSE [self |-> self, result |-> Ok(HlirType(ty_kind, ty_dec))])

(***************************************************************************)
(* mod.rs, declarations.rs: the declaration validators.  A Declaration is  *)
(* [specifier, ident, location] with ident <<>> or <<text>>.  The `?` of   *)
(* the code hands on a result that is not Ok, the validator with it.       *)
(***************************************************************************)
HlirVariable(span, ty, ident, is_const, initializer) ==
    [span |-> span, ty |-> ty, ident |-> ident, is_const |-> is_const,
     initializer |-> initializer]

HlirStruct(ident, fields, size) == [ident |-> ident, fields |-> fields, size |-> size]

HlirFunction(span, ty, ident, parameters, body) ==
    [span |-> span, ty |-> ty, ident |-> ident, parameters |-> parameters, body |-> body]

add_variable_to_scope(self, var, span) ==
    With(add_variable(self.scope, var.ident, var.ty, var.is_const, var.initializer # <<>>,
                      IF var.ty.decl.d = "Array" THEN <<var.ty.decl.size>> ELSE <<>>,
                      span), LAMBDA result :
        [self |-> IF result.result.tag = "Err"
                  THEN report_error([self EXCEPT !.scope = result.self], result.result.error)
                  ELSE [self EXCEPT !.scope = result.self],
         result |-> Ok("()")])

\* qualifier_scan that warns about every const, the first included: a mutant.
RECURSIVE qualifier_scan_warning_always(_, _, _, _, _)
qualifier_scan_warning_always(self, qualifiers, i, is_const, span) ==
    IF i > Len(qualifiers) THEN [self |-> self, is_const |-> is_const]
    ELSE qualifier_scan_warning_always(
            report_warning(self, [w |-> "RedundantUsage", text |-> qualifiers[i],
                                  span |-> span]),
            qualifiers, i + 1, TRUE, span)

\* The loop of process_dec_to_hlir_variable over the type qualifiers from i.
RECURSIVE qualifier_scan(_, _, _, _, _)
qualifier_scan(self, qualifiers, i, is_const, span) ==
    IF i > Len(qualifiers) THEN [self |-> self, is_const |-> is_const]
    ELSE IF is_const
    THEN qualifier_scan(report_warning(self, [w |-> "RedundantUsage",
                                              text |-> qualifiers[i], span |-> span]),
                        qualifiers, i + 1, is_const, span)
    ELSE qualifier_scan(self, qualifiers, i + 1, TRUE, span)

\* The loop of process_dec_to_hlir_variable over the storage specifiers from i.
RECURSIVE storage_scan(_, _, _, _)
storage_scan(self, specifiers, i, span) ==
    IF i > Len(specifiers) THEN self
    ELSE storage_scan(report_warning(self, [w |-> "UnsupportedStorageSpecifier",
                                            text |-> specifiers[i], span |-> span]),
                      specifiers, i + 1, span)

process_dec_to_hlir_variable(self, dec, span) ==
    IF dec.ident = <<>> THEN [self |-> self, result |-> Panic]
    ELSE
        With(qualifier_scan(self, dec.specifier.qualifiers, 1, FALSE, span), LAMBDA quals :
        Try(validate_type(storage_scan(quals.self, dec.specifier.specifiers, 1, span),
                          dec.specifier, span, FALSE), LAMBDA ty :
            [self |-> ty.self,
             result |-> Ok(HlirVariable(span, ty.result.value, dec.ident[1],
                                        quals.is_const, <<>>))]))

validate_function_param_declaration(self, param) ==
    IF param.specifier.specifiers # <<>>
    THEN [self |-> report_error(self, [e |-> "ParamStorageSpecifiers",
                                       span |-> param.location]),
          result |-> Err("()")]
    ELSE IF param.ident = <<>>
    THEN [self |-> report_error(self, [e |-> "ParamRequiresIdent", span |-> param.location]),
          result |-> Err("()")]
    ELSE process_dec_to_hlir_variable(self, param, param.location)

\* An expression is a literal of a type, an identifier or a call with arguments
\* given by their types; a failed lookup is reported and fails the expression.
validate_expression(self, expr) ==
    IF expr.node = "Literal" THEN [self |-> self, result |-> Ok(Literal(expr.ty))]
    ELSE
        With(IF expr.node = "Ident"
             THEN get_variable_type(self.scope, expr.ident, expr.location)
             ELSE resolve_call(self.scope, expr.ident, expr.args, expr.location), LAMBDA r :
            IF r.result.tag = "Err"
            THEN [self |-> report_error([self EXCEPT !.scope = r.self], r.result.error),
                  result |-> Err("()")]
            ELSE [self |-> [self EXCEPT !.scope = r.self], result |-> Ok(expr)])

\* The loop of validate_initializer over the elements of an array initializer.
RECURSIVE initializer_scan(_, _, _, _)
initializer_scan(self, arr, i, inits) ==
    IF i > Len(arr) THEN [self |-> self, result |-> Ok(inits)]
    ELSE Try(validate_expression(self, arr[i]), LAMBDA init :
            initializer_scan(init.self, arr, i + 1, Append(inits, init.result.value)))

validate_initializer(self, expr, span) ==
    IF expr.node = "ArrayInitializer"
    THEN Try(initializer_scan(self, expr.elements, 1, <<>>), LAMBDA inits :
            [self |-> inits.self,
             result |-> Ok([init |-> "Array", elements |-> inits.result.value])])
    ELSE Try(validate_expression(self, expr), LAMBDA r :
            [self |-> r.self, result |-> Ok([init |-> "Expr", expr |-> r.result.value])])

validate_variable_declaration(self, locatable_variable) ==
    LET span == locatable_variable.location
        var == locatable_variable
        declaration == var.declaration
    IN  Try(process_dec_to_hlir_variable(self, declaration, declaration.location),
            LAMBDA variable :
        Try(validate_type(variable.self, declaration.specifier, span, FALSE), LAMBDA ty :
            IF var.is_array /\ var.array_size = <<>> /\ var.initializer = <<>>
            THEN [self |-> report_error(ty.self, [e |-> "ArraySizeNotSpecified",
                                                  span |-> span]),
                  result |-> Err("()")]
            ELSE
            Try(IF var.initializer # <<>>
                THEN validate_initializer(ty.self, var.initializer[1], span)
                ELSE [self |-> ty.self, result |-> Ok("None")], LAMBDA init :
                LET initializer == IF var.initializer # <<>> THEN <<init.result.value>>
                                   ELSE <<>>
                    array_size ==
                        IF var.array_size # <<>> THEN var.array_size
                        ELSE IF initializer # <<>> /\ initializer[1].init = "Array"
                        THEN <<Len(initializer[1].elements)>>
                        ELSE <<>>
                    sized == IF array_size # <<>>
                             THEN HlirType(ty.result.value.kind, Array(array_size[1]))
                             ELSE ty.result.value
                IN  [self |-> init.self,
                     result |-> Ok([variable.result.value EXCEPT
                                        !.initializer = initializer, !.ty = sized])])))

\* A block is a sequence of statements: an expression, a declaration of a
\* local variable, or a nested block, which is validated in a scope of its
\* own.  The first statement that fails ends the block with Err.
RECURSIVE validate_block(_, _, _, _)
validate_block(self, block, i, stmts) ==
    IF i > Len(block) THEN [self |-> self, result |-> Ok(stmts)]
    ELSE
        CASE block[i].stmt = "Expression" ->
                Try(validate_expression(self, block[i].expr), LAMBDA r :
                    validate_block(r.self, block, i + 1,
                                   Append(stmts, [stmt |-> "Expression",
                                                  expr |-> r.result.value])))
          [] block[i].stmt = "Declaration" ->
                Try(validate_variable_declaration(self, block[i].decl), LAMBDA r :
                    validate_block(add_variable_to_scope(r.self, r.result.value,
                                                         block[i].decl.location).self,
                                   block, i + 1,
                                   Append(stmts, [stmt |-> "VariableDeclaration",
                                                  var |-> r.result.value])))
          [] block[i].stmt = "Block" ->
                With(validate_block(push_scope(self), block[i].body, 1, <<>>), LAMBDA r :
                With(pop_scope(r.self), LAMBDA popped :
                    IF popped = Panic THEN [self |-> r.self, result |-> Panic]
                    ELSE IF r.result.tag # "Ok" THEN [self |-> popped, result |-> r.result]
                    ELSE validate_block(popped, block, i + 1,
                                        Append(stmts, [stmt |-> "Block",
                                                       body |-> r.result.value]))))

\* flatten_blocks_recursive that inlines one level of nesting only: a mutant.
RECURSIVE flatten_blocks_recursive_one_level(_, _, _)
flatten_blocks_recursive_one_level(hlir_block, i, vec) ==
    IF i > Len(hlir_block) THEN vec
    ELSE IF hlir_block[i].stmt = "Block"
    THEN flatten_blocks_recursive_one_level(hlir_block, i + 1, vec \o hlir_block[i].body)
    ELSE flatten_blocks_recursive_one_level(hlir_block, i + 1, Append(vec, hlir_block[i]))

RECURSIVE flatten_blocks_recursive(_, _, _)
flatten_blocks_recursive(hlir_block, i, vec) ==
    IF i > Len(hlir_block) THEN vec
    ELSE IF hlir_block[i].stmt = "Block"
    THEN flatten_blocks_recursive(hlir_block, i + 1,
                                  flatten_blocks_recursive(hlir_block[i].body, 1, vec))
    ELSE flatten_blocks_recursive(hlir_block, i + 1, Append(vec, hlir_block[i]))

flatten_blocks(hlir_block) == flatten_blocks_recursive(hlir_block, 1, <<>>)

\* The size of a value of a type: the sum the struct validator accumulates.
sizeof(ty) ==
    IF ty.decl.d = "Pointer" THEN 8
    ELSE (IF ty.decl.d = "Array" THEN ty.decl.size ELSE 1) *
         (CASE ty.kind.k = "Char" -> 1
            [] ty.kind.k = "Int" -> 4
            [] ty.kind.k \in {"Long", "Double"} -> 8
            [] OTHER -> 0)

\* The loop of validate_struct_definition over the members from i.
RECURSIVE member_scan(_, _, _, _, _)
member_scan(self, members, i, fields, size) ==
    IF i > Len(members)
    THEN [self |-> self, result |-> Ok([fields |-> fields, size |-> size])]
    ELSE Try(process_dec_to_hlir_variable(self, members[i], members[i].location),
             LAMBDA member :
            member_scan(member.self, members, i + 1, Append(fields, member.result.value),
                        size + sizeof(member.result.value.ty)))

validate_struct_definition(self, _struct) ==
    LET specifier == _struct.declaration.specifier
        location == _struct.location
        reported(s, wrong, e) ==
            IF wrong THEN report_error(s, [e |-> e, span |-> location]) ELSE s
    IN  Try(validate_type(
                reported(reported(reported(self,
                                           specifier.pointer, "StructDeclarationPointer"),
                                  specifier.qualifiers # <<>>, "StructDeclarationQualifiers"),
                         specifier.specifiers # <<>>, "StructStorageSpecifiers"),
                specifier, _struct.declaration.location, FALSE), LAMBDA as_ty :
        IF as_ty.result.value.kind.k # "Struct"
        THEN [self |-> as_ty.self, result |-> Panic]
        ELSE
        Try(member_scan(as_ty.self, _struct.members, 1, <<>>, 0), LAMBDA members :
        With(HlirStruct(as_ty.result.value.kind.ident, members.result.value.fields,
                        members.result.value.size), LAMBDA hlir :
        With(add_struct(members.self.scope, as_ty.result.value, hlir, location),
             LAMBDA add_struct_result :
            IF add_struct_result.result = Panic
            THEN [self |-> [members.self EXCEPT !.scope = add_struct_result.self],
                  result |-> Panic]
            ELSE IF add_struct_result.result.tag = "Err"
            THEN [self |-> report_error(
                               [members.self EXCEPT !.scope = add_struct_result.self],
                               add_struct_result.result.error),
                  result |-> Ok(hlir)]
            ELSE [self |-> [members.self EXCEPT !.scope = add_struct_result.self],
                  result |-> Ok(hlir)]))))

\* The loop of validate_function_definition over the raw parameters from i.
RECURSIVE parameter_scan(_, _, _, _)
parameter_scan(self, raw_params, i, parameters) ==
    IF i > Len(raw_params) THEN [self |-> self, result |-> Ok(parameters)]
    ELSE Try(validate_function_param_declaration(self, raw_params[i]), LAMBDA parameter :
            parameter_scan(parameter.self, raw_params, i + 1,
                           Append(parameters, parameter.result.value)))

\* The loop of validate_function_definition that binds the parameters from i.
RECURSIVE bind_parameters(_, _, _, _)
bind_parameters(self, parameters, i, func_span) ==
    IF i > Len(parameters) THEN self
    ELSE bind_parameters(add_variable_to_scope(self, parameters[i], func_span).self,
                         parameters, i + 1, func_span)

\* validate_function_definition that registers the function after its body was
\* validated: a mutant.
validate_function_definition_registering_late(self, func) ==
    LET func_span == func.location
        dec == func.declaration
        dec_span == dec.location
    IN  IF dec.specifier.specifiers # <<>>
        THEN [self |-> report_error(self, [e |-> "FunctionStorageSpecifiers",
                                           span |-> dec_span]),
              result |-> Err("()")]
        ELSE
        Try(validate_type(self, dec.specifier, dec_span, TRUE), LAMBDA ty :
        IF dec.ident = <<>>
        THEN [self |-> report_error(ty.self, [e |-> "FunctionRequiresIdentifier",
                                              span |-> dec_span]),
              result |-> Err("()")]
        ELSE
        Try(parameter_scan(ty.self, func.parameters, 1, <<>>), LAMBDA parameters :
        With(validate_block(bind_parameters(push_scope(parameters.self),
                                            parameters.result.value, 1, func_span),
                            func.body, 1, <<>>), LAMBDA body :
        With(pop_scope(body.self), LAMBDA popped :
            IF body.result = Panic \/ popped = Panic
            THEN [self |-> body.self, result |-> Panic]
            ELSE
            With([popped EXCEPT !.scope =
                    add_function(@, dec.ident[1], ty.result.value,
                                 [n \in 1..Len(parameters.result.value) |->
                                      parameters.result.value[n].ty],
                                 func_span).self], LAMBDA registered :
                IF body.result.tag # "Ok" THEN [self |-> registered, result |-> body.result]
                ELSE [self |-> registered,
                      result |-> Ok(HlirFunction(func_span, ty.result.value, dec.ident[1],
                                                 parameters.result.value,
                                                 flatten_blocks(body.result.value)))])))))

validate_function_definition(self, func) ==
    LET func_span == func.location
        dec == func.declaration
        dec_span == dec.location
    IN  IF dec.specifier.specifiers # <<>>
        THEN [self |-> report_error(self, [e |-> "FunctionStorageSpecifiers",
                                           span |-> dec_span]),
              result |-> Err("()")]
        ELSE
        Try(validate_type(self, dec.specifier, dec_span, TRUE), LAMBDA ty :
        IF dec.ident = <<>>
        THEN [self |-> report_error(ty.self, [e |-> "FunctionRequiresIdentifier",
                                              span |-> dec_span]),
              result |-> Err("()")]
        ELSE
        Try(parameter_scan(ty.self, func.parameters, 1, <<>>), LAMBDA parameters :
        With([parameters.self EXCEPT !.scope =
                add_function(@, dec.ident[1], ty.result.value,
                             [n \in 1..Len(parameters.result.value) |->
                                  parameters.result.value[n].ty],
                             func_span).self], LAMBDA registered :
        With(validate_block(bind_parameters(push_scope(registered),
                                            parameters.result.value, 1, func_span),
                            func.body, 1, <<>>), LAMBDA body :
        With(pop_scope(body.self), LAMBDA popped :
            IF body.result = Panic \/ popped = Panic
            THEN [self |-> body.self, result |-> Panic]
            ELSE IF body.result.tag # "Ok" THEN [self |-> popped, result |-> body.result]
            ELSE [self |-> popped,
                  result |-> Ok(HlirFunction(func_span, ty.result.value, dec.ident[1],
                                             parameters.result.value,
                                             flatten_blocks(body.result.value)))])))))

(***************************************************************************)
(* What the variables hold while the part of the program they belong to is *)
(* not running.                                                            *)
(***************************************************************************)
NoHist ==
    [texts |-> <<>>, pushes |-> 0, pops |-> 0, decls |-> 0,
     dropped |-> {}, errored |-> {}, saved |-> <<>>]

NoValidator ==
    /\ ast = <<>>
    /\ pc = 1
    /\ globals = <<>>
    /\ functions = <<>>
    /\ structs = <<>>
    /\ outcome = "none"
    /\ reporter = Reporter

NoInterner == interner = <<>> /\ names = <<>>

(***************************************************************************)
(* The cast engine under test: names are interned one call at a time, then *)
(* one of the three cast functions is called once on a target type and an  *)
(* expression built from the interned names.                               *)
(***************************************************************************)
Texts == {"test", "node"}

Kinds(nm) ==
    {Void, Float, Double}
        \cup {Char(u) : u \in BOOLEAN} \cup {Int(u) : u \in BOOLEAN}
        \cup {Long(u) : u \in BOOLEAN} \cup {Struct(nm[i]) : i \in DOMAIN nm}

Decls == {Basic, Pointer} \cup {Array(n) : n \in 1..MaxArray}

Types(nm) == {HlirType(k, d) : k \in Kinds(nm), d \in Decls}

Exprs(nm) == {Literal(t) : t \in Types(nm)} \cup {Variable(t) : t \in Types(nm)}

CastInit ==
    /\ NoInterner
    /\ scope = create_root
    /\ NoValidator
    /\ call = NoCall
    /\ ret = NoRet
    /\ hist = NoHist

Intern(text) ==
    /\ call = NoCall
    /\ Len(names) < MaxInterned
    /\ LET r == intern(interner, text)
       IN  /\ interner' = r.pool
           /\ names' = Append(names, r.handle)
    /\ hist' = [hist EXCEPT !.texts = Append(@, text)]
    /\ UNCHANGED <<scope, reporter, ast, pc, globals, functions, structs, outcome, call, ret>>

ExplicitCast ==
    /\ call = NoCall
    /\ \E cast_ty \in Types(names), expr \in Exprs(names) :
        /\ call' = [op |-> "explicit_cast", cast_ty |-> cast_ty, expr |-> expr]
        /\ ret' = explicit_cast(cast_ty, expr)
    /\ UNCHANGED <<interner, names, scope, reporter, ast, pc, globals, functions, structs,
                   outcome, hist>>

ImplicitCast ==
    /\ call = NoCall
    /\ \E cast_to \in Types(names), expr \in Exprs(names) :
        /\ call' = [op |-> "implicit_cast", cast_ty |-> cast_to, expr |-> expr]
        /\ ret' = implicit_cast(cast_to, expr)
    /\ UNCHANGED <<interner, names, scope, reporter, ast, pc, globals, functions, structs,
                   outcome, hist>>

\* cast_numeric_to_numeric is only ever handed Basic types (its debug_assert!s).
CastNumericToNumeric ==
    /\ call = NoCall
    /\ \E cast_to \in Types(names), expr \in Exprs(names) :
        /\ cast_to.decl = Basic
        /\ expr.ty.decl = Basic
        /\ call' = [op |-> "cast_numeric_to_numeric", cast_ty |-> cast_to, expr |-> expr]
        /\ ret' = cast_numeric_to_numeric(cast_to, expr)
    /\ UNCHANGED <<interner, names, scope, reporter, ast, pc, globals, functions, structs,
                   outcome, hist>>

CastNext ==
    \/ \E text \in Texts : Intern(text)
    \/ ExplicitCast
    \/ ImplicitCast
    \/ CastNumericToNumeric

SpecCast == CastInit /\ [][CastNext]_vars

(***************************************************************************)
(* The shape of a cast result: the types of its Cast nodes from the        *)
(* outermost inwards, and the expression below them.                       *)
(***************************************************************************)
RECURSIVE CastChain(_)
CastChain(e) == IF e.node = "Cast" THEN <<e.to>> \o CastChain(e.operand) ELSE <<>>

RECURSIVE Innermost(_)
Innermost(e) == IF e.node = "Cast" THEN Innermost(e.operand) ELSE e

Ladder == {"Char", "Int", "Long", "Double"}

RankDistance(a, b) == IF a < b THEN b - a ELSE a - b

\* C1: explicit_cast and implicit_cast of an expression to the type it already has
\* return Ok of that very expression, with no Cast node around it; names interned
\* separately from equal text are equal, so the Struct types built from them are
\* the same type at every decl.
C1_CastToOwnTypeIsIdentity ==
    /\ (/\ call.op \in {"explicit_cast", "implicit_cast"}
        /\ call.cast_ty = call.expr.ty) => ret = Ok(call.expr)
    /\ \A i, j \in DOMAIN names :
            hist.texts[i] = hist.texts[j] =>
                \A d \in Decls :
                    HlirType(Struct(names[i]), d) = HlirType(Struct(names[j]), d)

\* C1 witness: implicit_cast to Struct pointer of an expression whose Struct name
\* came from a second intern call of the same text returned the expression.
C1_Witness ==
    /\ call.op = "implicit_cast"
    /\ \E i, j \in DOMAIN names :
        /\ i # j
        /\ hist.texts[i] = hist.texts[j]
        /\ call.cast_ty = HlirType(Struct(names[i]), Pointer)
        /\ call.expr.ty = HlirType(Struct(names[j]), Pointer)
    /\ ret = Ok(call.expr)

\* C1 witness, explicit_cast: an lvalue of array type is returned as it is.
C1_WitnessExplicit ==
    /\ call.op = "explicit_cast"
    /\ call.expr.is_lval
    /\ call.cast_ty.decl.d = "Array"
    /\ ret = Ok(call.expr)

\* C2: between two different ranks of the ladder Char < Int < Long < Double,
\* cast_numeric_to_numeric returns exactly |rank(target) - rank(source)| nested
\* Cast nodes around the original expression, one per rank step, the outermost
\* typed as the target; Char to Double has the kinds Double, Long, Int and
\* Double to Char the kinds Char, Int, Long.
C2_OneCastPerRankStep ==
    (/\ call.op = "cast_numeric_to_numeric"
     /\ call.expr.ty.kind.k \in Ladder
     /\ call.cast_ty.kind.k \in Ladder
     /\ get_numeric_cast_hierarchy(call.expr.ty.kind)
            # get_numeric_cast_hierarchy(call.cast_ty.kind))
    => LET chain == CastChain(ret)
           from == get_numeric_cast_hierarchy(call.expr.ty.kind)
           to == get_numeric_cast_hierarchy(call.cast_ty.kind)
       IN  /\ ret # Panic
           /\ Innermost(ret) = call.expr
           /\ Len(chain) = RankDistance(from, to)
           /\ chain[1] = call.cast_ty
           /\ \A n \in 1..Len(chain) :
                RankDistance(get_numeric_cast_hierarchy(chain[n].kind), to) = n - 1
           /\ (from = 1 /\ to = 4) =>
                [n \in 1..Len(chain) |-> chain[n].kind.k] = <<"Double", "Long", "Int">>
           /\ (from = 4 /\ to = 1) =>
                [n \in 1..Len(chain) |-> chain[n].kind.k] = <<"Char", "Int", "Long">>

\* C2, what the code does: the chain has one Cast more than the ranks are apart;
\* below the Cast nodes of the rank steps sits a Cast to the source's own rank.
C2_ChainHasOneCastMore ==
    (/\ call.op = "cast_numeric_to_numeric"
     /\ call.expr.ty.kind.k \in Ladder
     /\ call.cast_ty.kind.k \in Ladder
     /\ get_numeric_cast_hierarchy(call.expr.ty.kind)
            # get_numeric_cast_hierarchy(call.cast_ty.kind))
    => LET chain == CastChain(ret)
           from == get_numeric_cast_hierarchy(call.expr.ty.kind)
           to == get_numeric_cast_hierarchy(call.cast_ty.kind)
       IN  /\ ret # Panic
           /\ Innermost(ret) = call.expr
           /\ Len(chain) = RankDistance(from, to) + 1
           /\ chain[1] = call.cast_ty
           /\ \A n \in 1..Len(chain) :
                RankDistance(get_numeric_cast_hierarchy(chain[n].kind), to) = n - 1

\* C2 witness: a Char expression was cast to Double.
C2_Witness ==
    /\ call.op = "cast_numeric_to_numeric"
    /\ call.expr.ty = HlirType(Char(FALSE), Basic)
    /\ call.cast_ty = HlirType(Double, Basic)
    /\ ret # Panic
    /\ [n \in 1..Len(CastChain(ret)) |-> CastChain(ret)[n].kind.k]
            = <<"Double", "Long", "Int", "Char">>

(***************************************************************************)
(* The type scan under test: a fresh validator is handed one specifier     *)
(* list, as the tests of mod.rs do.                                        *)
(***************************************************************************)
TypeSpecifiers ==
    {[t |-> x] : x \in {"Void", "Char", "Int", "Long", "Double", "Signed", "Unsigned"}}
        \cup {[t |-> "Struct", ident |-> "S"]}

SpecifierLists == UNION {[1..n -> TypeSpecifiers] : n \in 0..MaxSpecifiers}

TypeInit ==
    /\ NoInterner
    /\ scope = create_root
    /\ NoValidator
    /\ call = NoCall
    /\ ret = NoRet
    /\ hist = NoHist

ValidateType ==
    /\ call = NoCall
    /\ \E ty \in SpecifierLists, pointer \in BOOLEAN, is_function_return_ty \in BOOLEAN :
        LET declaration == DeclarationSpecifier(<<>>, <<>>, ty, pointer)
            r == validate_type(GlobalValidator(scope, reporter, hist.dropped), declaration,
                               0, is_function_return_ty)
        IN  /\ call' = [op |-> "validate_type", declaration |-> declaration,
                        is_function_return_ty |-> is_function_return_ty]
            /\ ret' = r.result
            /\ reporter' = r.self.reporter
    /\ UNCHANGED <<interner, names, scope, ast, pc, globals, functions, structs, outcome, hist>>

TypeNext == ValidateType

SpecType == TypeInit /\ [][TypeNext]_vars

\* The kind a complete specifier list names, by the grammar of the language:
\* <<kind>> for a base type alone or after signed / unsigned, <<>> for any other list.
NamedKind(ty) ==
    IF Len(ty) = 1 /\ ty[1].t \in {"Void", "Double"} THEN <<[k |-> ty[1].t]>>
    ELSE IF Len(ty) = 1 /\ ty[1].t = "Struct" THEN <<[k |-> "Struct", ident |-> ty[1].ident]>>
    ELSE IF Len(ty) = 1 /\ ty[1].t \in {"Char", "Int", "Long"}
    THEN <<[k |-> ty[1].t, u |-> FALSE]>>
    ELSE IF /\ Len(ty) = 2 /\ ty[1].t \in {"Signed", "Unsigned"}
            /\ ty[2].t \in {"Char", "Int", "Long"}
    THEN <<[k |-> ty[2].t, u |-> (ty[1].t = "Unsigned")]>>
    ELSE <<>>

\* C3: validate_type returns Ok exactly for the lists [void], [char], [int], [long],
\* [double], [struct name] and [signed|unsigned] followed by one of char / int / long,
\* void only as a pointer or a return type; the type returned has the named kind,
\* unsigned exactly after an unsigned prefix, and decl Pointer exactly when the
\* pointer flag is set, Basic otherwise.
C3_TypeScanAcceptsTheGrammar ==
    call.op = "validate_type" =>
        LET ty == call.declaration.ty
            named == NamedKind(ty)
            void_ok == \/ named # <<Void>>
                       \/ call.declaration.pointer
                       \/ call.is_function_return_ty
        IN  /\ ret.tag = "Ok" <=> (named # <<>> /\ void_ok)
            /\ ret.tag = "Ok" =>
                ret.value = HlirType(named[1],
                                     IF call.declaration.pointer THEN Pointer ELSE Basic)

\* C3 witness: [Unsigned, Int] was accepted as an unsigned Int, and so on for the
\* lists of the tests; this one is the accepted unsigned case.
C3_Witness ==
    /\ call.op = "validate_type"
    /\ call.declaration.ty = <<[t |-> "Unsigned"], [t |-> "Int"]>>
    /\ ~call.declaration.pointer
    /\ ret = Ok(HlirType(Int(TRUE), Basic))

\* C3 witness, rejection: [Int, Long, Int] was rejected.
C3_WitnessRejected ==
    /\ call.op = "validate_type"
    /\ call.declaration.ty = <<[t |-> "Int"], [t |-> "Long"], [t |-> "Int"]>>
    /\ ret.tag = "Err"

(***************************************************************************)
(* The symbol table under test: from a fresh root, any sequence of         *)
(* declarations, lookups, pushes and pops, and then a call resolution.     *)
(* Every span is 0, the Span::default() of the tests.                      *)
(***************************************************************************)
SymIdents == {"main", "printf", "x"}

IntType == HlirType(Int(FALSE), Basic)

ArgTypes == {IntType, HlirType(Char(TRUE), Pointer)}

\* The parameters of the function AddFunction declares, and the argument lists
\* of a call: up to one argument more than that function has parameters.
Params == <<IntType, IntType>>

ArgLists == UNION {[1..n -> ArgTypes] : n \in 0..(Len(Params) + 1)}

SymInit ==
    /\ NoInterner
    /\ scope = create_root
    /\ NoValidator
    /\ call = NoCall
    /\ ret = NoRet
    /\ hist = NoHist

\* A panic ends the run, and so does a call resolution: what it leaves in the
\* table is what Retrieve of the called identifier leaves.
Running == ret # Panic /\ call.op # "resolve_call"

\* What a declaration leaves in the variables.
Declared(ident, kind, r) ==
    /\ call' = [op |-> "add_symbol", ident |-> ident, kind |-> kind]
    /\ ret' = r.result
    /\ scope' = r.self
    /\ hist' = [hist EXCEPT !.decls = @ + 1]
    /\ UNCHANGED <<interner, names, reporter, ast, pc, globals, functions, structs, outcome>>

AddVariable ==
    /\ Running
    /\ hist.decls < MaxDecls
    /\ \E ident \in SymIdents :
        Declared(ident, VariableSymbol(IntType, FALSE, FALSE, <<>>),
                 add_variable(scope, ident, IntType, FALSE, FALSE, <<>>, 0))

AddFunction ==
    /\ Running
    /\ hist.decls < MaxDecls
    /\ \E ident \in SymIdents :
        Declared(ident, FunctionSymbol(<<>>, IntType, FALSE, Params),
                 add_function(scope, ident, IntType, Params, 0))

AddSymbol ==
    /\ Running
    /\ hist.decls < MaxDecls
    /\ \E ident \in SymIdents :
        LET kind == StructSymbol(0, HlirType(Void, Basic), <<>>)
        IN  Declared(ident, kind, add_symbol(scope, ident, kind, 0))

Retrieve ==
    /\ Running
    /\ \E ident \in SymIdents :
        LET r == retrieve(scope, ident, 0)
        IN  /\ call' = [op |-> "retrieve", ident |-> ident]
            /\ ret' = r.result
            /\ scope' = r.self
    /\ UNCHANGED <<interner, names, reporter, ast, pc, globals, functions, structs, outcome,
                   hist>>

ResolveCall ==
    /\ Running
    /\ \E ident \in SymIdents, args \in ArgLists :
        LET r == resolve_call(scope, ident, args, 0)
        IN  /\ call' = [op |-> "resolve_call", ident |-> ident, args |-> args]
            /\ ret' = r.result
            /\ scope' = r.self
    /\ UNCHANGED <<interner, names, reporter, ast, pc, globals, functions, structs, outcome,
                   hist>>

PushScope ==
    /\ Running
    /\ hist.pushes < MaxPushes
    /\ LET self == push_scope(GlobalValidator(scope, reporter, hist.dropped))
       IN  /\ scope' = self.scope
           /\ call' = [op |-> "push_scope"]
           /\ ret' = Ok("()")
           /\ hist' = [hist EXCEPT !.pushes = @ + 1, !.saved = Append(@, scope.symbols)]
    /\ UNCHANGED <<interner, names, reporter, ast, pc, globals, functions, structs, outcome>>

PopScope ==
    /\ Running
    /\ LET self == pop_scope(GlobalValidator(scope, reporter, hist.dropped))
       IN  /\ call' = [op |-> "pop_scope"]
           /\ IF self = Panic
              THEN /\ ret' = Panic
                   /\ UNCHANGED <<scope, hist>>
              ELSE /\ ret' = Ok("()")
                   /\ scope' = self.scope
                   /\ hist' = [hist EXCEPT !.pops = @ + 1,
                                           !.saved = SubSeq(@, 1, Len(@) - 1)]
    /\ UNCHANGED <<interner, names, reporter, ast, pc, globals, functions, structs, outcome>>

SymNext ==
    \/ AddVariable
    \/ AddFunction
    \/ AddSymbol
    \/ Retrieve
    \/ ResolveCall
    \/ PushScope
    \/ PopScope

SpecSym == SymInit /\ [][SymNext]_vars

(***************************************************************************)
(* The parent chain of a scope, the scope first and the root last, and the *)
(* entry of the nearest scope of it that declares an identifier.           *)
(***************************************************************************)
RECURSIVE Chain(_)
Chain(sc) == <<sc>> \o (IF sc.parent = <<>> THEN <<>> ELSE Chain(sc.parent[1]))

Nearest(sc, ident) ==
    LET chain == Chain(sc)
        hits == {n \in 1..Len(chain) : ident \in DOMAIN chain[n].symbols}
    IN  IF hits = {} THEN <<>>
        ELSE <<chain[CHOOSE n \in hits : \A o \in hits : n <= o].symbols[ident]>>

IsErr(r, e) == r.tag = "Err" /\ r.error.e = e

\* C4: a lookup returns the entry of the nearest scope on the parent chain that
\* declares the name, the current scope first, and fails with IdentNotFound
\* exactly when no scope of the chain declares it.
C4_LookupFindsNearestDeclaration ==
    call.op = "retrieve" =>
        LET near == Nearest(scope, call.ident)
        IN  /\ near # <<>> => ret = Ok(near[1])
            /\ near = <<>> <=> IsErr(ret, "IdentNotFound")

\* C4 witness: x is looked up from a pushed scope that declares nothing and is
\* found in the parent.
C4_Witness ==
    /\ call.op = "retrieve"
    /\ call.ident = "x"
    /\ scope.parent # <<>>
    /\ DOMAIN scope.symbols = {}
    /\ "x" \in DOMAIN scope.parent[1].symbols
    /\ ret.tag = "Ok"

\* C5: a declaration fails with IdentifierExists exactly when the name is in the
\* current scope's own map (an ancestor's entry does not count), otherwise with
\* MainIsReserved exactly when main is declared as a Variable or a Struct, and
\* otherwise succeeds, after which the name resolves to the entry declared.
C5_DeclareFailsOnlyOnOwnScope ==
    [][hist'.decls = hist.decls + 1 =>
        LET ident == call'.ident
            kind == call'.kind
            own == ident \in DOMAIN scope.symbols
            reserved == ident = "main" /\ kind.sym \in {"Variable", "Struct"}
        IN  /\ IsErr(ret', "IdentifierExists") <=> own
            /\ IsErr(ret', "MainIsReserved") <=> (~own /\ reserved)
            /\ ret'.tag = "Ok" <=> (~own /\ ~reserved)
            /\ ret'.tag = "Ok" => retrieve(scope', ident, 0).result = Ok(kind)]_vars

\* C5 witness: printf, a built-in of the root, is declared as a variable in a
\* pushed scope.
C5_Witness ==
    /\ call.op = "add_symbol"
    /\ call.ident = "printf"
    /\ call.kind.sym = "Variable"
    /\ scope.parent # <<>>
    /\ ret.tag = "Ok"

\* C5 witness: main is refused as a struct.
C5_WitnessMain ==
    /\ call.op = "add_symbol"
    /\ call.ident = "main"
    /\ call.kind.sym = "Struct"
    /\ IsErr(ret, "MainIsReserved")

C9_WitnessArity ==
    /\ call.op = "resolve_call"
    /\ call.ident = "x"
    /\ call.args = <<IntType, IntType, IntType>>
    /\ IsErr(ret, "FunctionTypeMismatch")

\* C9 witness: a variable is called.
C9_WitnessNotAFunction ==
    /\ call.op = "resolve_call"
    /\ Nearest(scope, call.ident) # <<>>
    /\ Nearest(scope, call.ident)[1].sym = "Variable"
    /\ IsErr(ret, "NotAFunction")

\* C10: the chain of the current scope is 1 + pushes - pops scopes long; every
\* ancestor has the symbols it had when its child was pushed, so a pop gives
\* back the parent as it was; a pushed scope is empty and has a parent; and the
\* only pop that does not return is the pop of the root, which panics.
C10_ScopesNestLifo ==
    LET chain == Chain(scope)
    IN  /\ Len(chain) + hist.pops = 1 + hist.pushes
        /\ Len(hist.saved) + 1 = Len(chain)
        /\ \A n \in 1..Len(hist.saved) :
                chain[Len(chain) - n + 1].symbols = hist.saved[n]
        /\ call.op = "push_scope" =>
                /\ DOMAIN scope.symbols = {}
                /\ DOMAIN scope.un_accessed_items = {}
                /\ scope.parent # <<>>
        /\ ret = Panic => call.op = "pop_scope" /\ scope.parent = <<>>

\* C10 witness: after a push and a pop, the root is popped and the pop panics.
C10_Witness ==
    /\ call.op = "pop_scope"
    /\ ret = Panic
    /\ hist.pops > 0

\* C10 witness: a pop gave back a parent that declares x, two pushes deep.
C10_WitnessPop ==
    /\ call.op = "pop_scope"
    /\ ret.tag = "Ok"
    /\ scope.parent # <<>>
    /\ "x" \in DOMAIN scope.symbols


(***************************************************************************)
(* The validation pass: GlobalValidator::new(ast).validate(), one action   *)
(* per top-level item of the walk and one for what follows the walk.       *)
(***************************************************************************)
\* The location of the k-th node of the n-th top-level item.
Span(n, k) == 3 * n + k

Specifier(specifiers, qualifiers, t) ==
    DeclarationSpecifier(specifiers, qualifiers, <<[t |-> t]>>, FALSE)

Declaration(specifier, ident, location) ==
    [specifier |-> specifier, ident |-> ident, location |-> location]

VariableDeclaration(specifier, ident, location) ==
    [item |-> "Declaration", location |-> location,
     declaration |-> Declaration(specifier, <<ident>>, location),
     is_array |-> FALSE, array_size |-> <<>>, initializer |-> <<>>]

FunctionDeclaration(ident, parameters, body, location) ==
    [item |-> "Function", location |-> location,
     declaration |-> Declaration(Specifier(<<>>, <<>>, "Int"), <<ident>>, location),
     parameters |-> parameters, body |-> body]

StructDeclaration(qualifiers, ident, members, location) ==
    [item |-> "Struct", location |-> location,
     declaration |->
        Declaration(DeclarationSpecifier(<<>>, qualifiers,
                                         <<[t |-> "Struct", ident |-> ident]>>, FALSE),
                    <<>>, location),
     members |-> members]

\* The top-level items a program of the model is made of, for the n-th place:
\*   int x;   void x;   static int x;
\*   int f(int a) {}   int f(int a) { a; }   int f(int a) { y; }
\*   int main() { { int x; } f(1); }
\*   int main() { printf("%d", 1); }
\*   int f(int a) { f(1); }   int g(static int a) {}
\*   static int h() {}   int int h() {}   int () {}   int h() { { y; } }
\*   int printf() {}   int f(int a) { x; }
\*   struct S { int a; };   const struct S { int a; };
Items(n) ==
    LET int == Specifier(<<>>, <<>>, "Int")
        a == Declaration(int, <<"a">>, Span(n, 0))
        use(ident) == [stmt |-> "Expression",
                       expr |-> [node |-> "Ident", ident |-> ident,
                                 location |-> Span(n, 2)]]
        called(ident, args) ==
            [stmt |-> "Expression",
             expr |-> [node |-> "Call", ident |-> ident, args |-> args,
                       location |-> Span(n, 2)]]
        call_f == called("f", <<IntType>>)
        local == [stmt |-> "Declaration",
                  decl |-> VariableDeclaration(int, "x", Span(n, 1))]
    IN  { VariableDeclaration(int, "x", Span(n, 0)),
          VariableDeclaration(Specifier(<<>>, <<>>, "Void"), "x", Span(n, 0)),
          VariableDeclaration(Specifier(<<"static">>, <<>>, "Int"), "x", Span(n, 0)),
          FunctionDeclaration("f", <<a>>, <<>>, Span(n, 0)),
          FunctionDeclaration("f", <<a>>, <<use("a")>>, Span(n, 0)),
          FunctionDeclaration("f", <<a>>, <<use("y")>>, Span(n, 0)),
          FunctionDeclaration("main", <<>>,
                              <<[stmt |-> "Block", body |-> <<local>>], call_f>>,
                              Span(n, 0)),
          FunctionDeclaration("main", <<>>,
                              <<called("printf", <<HlirType(Char(TRUE), Pointer), IntType>>)>>,
                              Span(n, 0)),
          FunctionDeclaration("f", <<a>>, <<call_f>>, Span(n, 0)),
          FunctionDeclaration("g", <<Declaration(Specifier(<<"static">>, <<>>, "Int"),
                                                 <<"a">>, Span(n, 0))>>,
                              <<>>, Span(n, 0)),
          [FunctionDeclaration("h", <<>>, <<>>, Span(n, 0)) EXCEPT
                !.declaration.specifier = Specifier(<<"static">>, <<>>, "Int")],
          [FunctionDeclaration("h", <<>>, <<>>, Span(n, 0)) EXCEPT
                !.declaration.specifier =
                    DeclarationSpecifier(<<>>, <<>>, <<[t |-> "Int"], [t |-> "Int"]>>, FALSE)],
          [FunctionDeclaration("h", <<>>, <<>>, Span(n, 0)) EXCEPT
                !.declaration.ident = <<>>],
          FunctionDeclaration("h", <<>>, <<[stmt |-> "Block", body |-> <<use("y")>>]>>,
                              Span(n, 0)),
          FunctionDeclaration("printf", <<>>, <<>>, Span(n, 0)),
          FunctionDeclaration("f", <<a>>, <<use("x")>>, Span(n, 0)),
          StructDeclaration(<<>>, "S", <<a>>, Span(n, 0)),
          StructDeclaration(<<"const">>, "S", <<a>>, Span(n, 0)) }

RECURSIVE Programs(_)
Programs(k) ==
    IF k = 0 THEN {<<>>}
    ELSE Programs(k - 1) \cup
         {Append(p, it) : p \in {q \in Programs(k - 1) : Len(q) = k - 1}, it \in Items(k)}

Init ==
    /\ NoInterner
    /\ ast \in Programs(MaxItems)
    /\ scope = create_root
    /\ reporter = Reporter
    /\ pc = 1
    /\ globals = <<>>
    /\ functions = <<>>
    /\ structs = <<>>
    /\ outcome = "none"
    /\ call = NoCall
    /\ ret = NoRet
    /\ hist = NoHist

Self == GlobalValidator(scope, reporter, hist.dropped)

\* What the validation of ast[pc] leaves in the variables: a panic ends the pass.
Validated(op, r) ==
    /\ call' = [op |-> op, location |-> ast[pc].location]
    /\ ret' = r.result
    /\ scope' = r.self.scope
    /\ reporter' = r.self.reporter
    /\ hist' = [hist EXCEPT
                    !.dropped = r.self.dropped,
                    !.errored = IF r.self.reporter.errors # reporter.errors
                                THEN @ \cup {ast[pc].location} ELSE @]
    /\ outcome' = IF r.result = Panic THEN "panic" ELSE outcome
    /\ pc' = IF r.result = Panic THEN pc ELSE pc + 1
    /\ UNCHANGED <<interner, names, ast>>

Located(r) == [location |-> ast[pc].location, value |-> r.result.value]

ValidateDeclaration ==
    /\ outcome = "none"
    /\ pc <= Len(ast)
    /\ ast[pc].item = "Declaration"
    /\ With(validate_variable_declaration(Self, ast[pc]), LAMBDA r :
           /\ Validated("validate_variable_declaration", r)
           /\ globals' = IF r.result.tag = "Ok"
                         THEN Insert(globals, r.result.value.ident, Located(r))
                         ELSE globals)
    /\ UNCHANGED <<functions, structs>>

ValidateFunction ==
    /\ outcome = "none"
    /\ pc <= Len(ast)
    /\ ast[pc].item = "Function"
    /\ With(validate_function_definition(Self, ast[pc]), LAMBDA r :
           /\ Validated("validate_function_definition", r)
           /\ functions' = IF r.result.tag = "Ok"
                           THEN Insert(functions, r.result.value.ident, Located(r))
                           ELSE functions)
    /\ UNCHANGED <<globals, structs>>

ValidateStruct ==
    /\ outcome = "none"
    /\ pc <= Len(ast)
    /\ ast[pc].item = "Struct"
    /\ With(validate_struct_definition(Self, ast[pc]), LAMBDA r :
           /\ Validated("validate_struct_definition", r)
           /\ structs' = IF r.result.tag = "Ok"
                         THEN Insert(structs, r.result.value.ident, Located(r))
                         ELSE structs)
    /\ UNCHANGED <<globals, functions>>

\* The orders a HashMap may hand out the elements of a set in.
Orders(S) ==
    {o \in [1..Cardinality(S) -> S] : \A m, n \in 1..Cardinality(S) : o[m] = o[n] => m = n}

\* The loop of validate over the unused identifiers from i.
RECURSIVE unused_scan(_, _, _)
unused_scan(self, idents, i) ==
    IF i > Len(idents) THEN [self |-> self, result |-> Ok("()")]
    ELSE
        LET ident == idents[i][1]
            warn(w, map) ==
                unused_scan(report_warning(self, [w |-> w, span |-> map[ident].location]),
                            idents, i + 1)
        IN  IF ident \in DOMAIN globals THEN warn("UnusedVariable", globals)
            ELSE IF ident \in DOMAIN functions THEN warn("UnusedFunction", functions)
            ELSE IF ident \in DOMAIN structs THEN warn("UnusedStruct", structs)
            ELSE [self |-> self, result |-> Panic]

\* validate after the walk: the unused identifiers, then the status of the sink.
Finish ==
    /\ outcome = "none"
    /\ pc = Len(ast) + 1
    /\ \E idents \in Orders(get_unused_idents(scope)) :
        With(unused_scan(Self, idents, 1), LAMBDA r :
            /\ reporter' = r.self.reporter
            /\ ret' = r.result
            /\ outcome' = IF r.result = Panic THEN "panic"
                          ELSE IF get_status(r.self.reporter).tag = "Err" THEN "sink"
                          ELSE "program")
    /\ call' = [op |-> "validate"]
    /\ UNCHANGED <<interner, names, scope, ast, pc, globals, functions, structs, hist>>

Next ==
    \/ ValidateDeclaration
    \/ ValidateFunction
    \/ ValidateStruct
    \/ Finish

Spec == Init /\ [][Next]_vars


(***************************************************************************)
(* What the pass reports and returns.                                      *)
(***************************************************************************)
Returned == outcome \in {"program", "sink"}

UnusedWarning(sym) ==
    CASE sym = "Variable" -> "UnusedVariable"
      [] sym = "Function" -> "UnusedFunction"
      [] sym = "Struct" -> "UnusedStruct"

\* The number of warnings of a kind at a location.
Warned(w, span) ==
    Cardinality({n \in 1..Len(reporter.warnings) :
                    reporter.warnings[n].w = w /\ reporter.warnings[n].span = span})

\* The identifiers declared and never looked up: those still unused in the
\* root scope, those that were unused in a scope when it was popped, and the
\* globals, which no scope holds and no lookup finds.
NeverLookedUp ==
    Unused(scope) \cup hist.dropped \cup
    {[ident |-> i, span |-> globals[i].location, sym |-> "Variable"] : i \in DOMAIN globals}

\* C6: at the end of a pass every identifier declared anywhere (top level,
\* parameter, nested scope) and never looked up has exactly one warning of its
\* kind at its declaration location, and there is no unused warning for
\* anything else.
C6_EveryUnusedIdentifierIsWarned ==
    Returned =>
        /\ \A d \in NeverLookedUp : Warned(UnusedWarning(d.sym), d.span) = 1
        /\ \A n \in 1..Len(reporter.warnings) :
                reporter.warnings[n].w \in {"UnusedVariable", "UnusedFunction", "UnusedStruct"}
                    => \E d \in NeverLookedUp :
                            /\ reporter.warnings[n].w = UnusedWarning(d.sym)
                            /\ reporter.warnings[n].span = d.span

\* C6 witness: the pass of `int f(int a) {}` returned the program; the
\* parameter a was unused when the scope of f was popped, and no warning is
\* about a variable.
C6_Witness ==
    /\ outcome = "program"
    /\ Len(ast) = 1
    /\ \E d \in hist.dropped : d.ident = "a" /\ d.sym = "Variable"
    /\ \A n \in 1..Len(reporter.warnings) : reporter.warnings[n].w # "UnusedVariable"

\* What holds of the warnings: each identifier still unused in the root scope
\* has one warning of its kind.
C6_RootScopeIsWarned ==
    Returned =>
        \A d \in Unused(scope) :
            \E n \in 1..Len(reporter.warnings) : reporter.warnings[n].w = UnusedWarning(d.sym)

IsPrefix(s, t) == Len(s) <= Len(t) /\ SubSeq(t, 1, Len(s)) = s

\* C7: once the walk is over validate returns the sink if a hard error was
\* reported at any point of the pass and the program if and only if none was,
\* whatever the number of warnings; errors are never removed from the sink.
C7_ErrorsDecideTheOutcome ==
    /\ [](outcome # "none" =>
            /\ (hist.errored # {} \/ reporter.errors # <<>>) => outcome = "sink"
            /\ outcome = "program" <=> (hist.errored = {} /\ reporter.errors = <<>>))
    /\ [][IsPrefix(reporter.errors, reporter'.errors)]_vars

\* C7 witness: a function whose body failed was left unused, and the pass ended
\* in the abort instead of returning the sink.
C7_Witness ==
    /\ outcome = "panic"
    /\ call.op = "validate"
    /\ reporter.errors # <<>>

\* What holds of the outcome: when validate returns, it returns the sink exactly
\* when an error was reported, and no error is ever removed.
C7_ReturnedOutcomeFollowsErrors ==
    /\ [](Returned => (outcome = "sink" <=> reporter.errors # <<>>))
    /\ [](hist.errored # {} <=> reporter.errors # <<>>)
    /\ [][IsPrefix(reporter.errors, reporter'.errors)]_vars

\* C7 witness of what holds: the program is returned with warnings in the sink.
C7_WitnessWarnings ==
    /\ outcome = "program"
    /\ reporter.warnings # <<>>

Inserted ==
    {globals[i].location : i \in DOMAIN globals}
    \cup {functions[i].location : i \in DOMAIN functions}
    \cup {structs[i].location : i \in DOMAIN structs}

\* C8: an item whose validation recorded a hard error is in none of the three
\* mappings, and the walk goes on to every later item in source order: it is
\* over only when every item has been validated.
C8_FailedItemsAreSkipped ==
    /\ [](hist.errored \cap Inserted = {})
    /\ [](Returned => pc = Len(ast) + 1)
    /\ [][pc' \in {pc, pc + 1}]_vars

\* C8 witness: `const struct S { int a; };` recorded StructDeclarationQualifiers
\* and is in the structs mapping.
C8_Witness ==
    /\ "S" \in DOMAIN structs
    /\ structs["S"].location \in hist.errored
    /\ \E n \in 1..Len(reporter.errors) :
            reporter.errors[n].e = "StructDeclarationQualifiers"

\* What holds of the walk: an item that returned Err is in no mapping, and
\* every item is validated in source order whatever failed before it.
C8_WalkVisitsEveryItem ==
    /\ [](Returned => pc = Len(ast) + 1)
    /\ [](\A l \in Inserted : \E n \in 1..(pc - 1) : ast[n].location = l)
    /\ [][pc' \in {pc, pc + 1}]_vars


(***************************************************************************)
(* The built-ins of the root scope.                                        *)
(***************************************************************************)
CallsPrintf(item) ==
    /\ item.item = "Function"
    /\ Len(item.body) = 1
    /\ item.body[1].stmt = "Expression"
    /\ item.body[1].expr.node = "Call"
    /\ item.body[1].expr.ident = "printf"

\* C11: the scope create_root returns has no parent and holds exactly printf,
\* malloc and free, printf with varargs and the two others without, none of
\* them in the unused set; so a call of printf resolves, and the unused
\* warnings of a pass are all about items of the program, none about a
\* built-in.
C11_RootHoldsTheBuiltins ==
    /\ pc = 1 /\ outcome = "none" =>
            /\ scope.parent = <<>>
            /\ DOMAIN scope.symbols = {"printf", "malloc", "free"}
            /\ \A b \in DOMAIN scope.symbols :
                    /\ scope.symbols[b].sym = "Function"
                    /\ scope.symbols[b].varargs <=> b = "printf"
            /\ DOMAIN scope.un_accessed_items = {}
    /\ DOMAIN scope.un_accessed_items \cap {"printf", "malloc", "free"} = {}
    /\ (call.op = "validate_function_definition" /\ CallsPrintf(ast[pc - 1]))
            => ret.tag = "Ok"
    /\ Returned =>
            \A n \in 1..Len(reporter.warnings) :
                reporter.warnings[n].w \in {"UnusedVariable", "UnusedFunction", "UnusedStruct"}
                    => \E m \in 1..Len(ast) : ast[m].location = reporter.warnings[n].span

\* C11 witness: the pass of `int main() { printf("%d", 1); }` on the fresh
\* root returned the program without a warning.
C11_Witness ==
    /\ outcome = "program"
    /\ Len(ast) = 1
    /\ CallsPrintf(ast[1])
    /\ "main" \in DOMAIN functions
    /\ reporter.warnings = <<>>

\* C11 witness: a pass that refers to no built-in returned the program with
\* one unused warning, about its function.
C11_WitnessNoReference ==
    /\ outcome = "program"
    /\ Len(ast) = 1
    /\ ~CallsPrintf(ast[1])
    /\ Len(reporter.warnings) = 1
    /\ reporter.warnings[1].w = "UnusedFunction"

(***************************************************************************)
(* explicit_cast and implicit_cast, pair by pair.                          *)
(***************************************************************************)
BothNumericBasic(target, e) ==
    /\ e.ty.decl.d = "Basic" /\ target.decl.d = "Basic"
    /\ kind_is_numeric(e.ty.kind) /\ kind_is_numeric(target.kind)

ExplicitRule(target, e) ==
    \/ e.ty = target
    \/ e.ty.decl.d = "Array" /\ target.decl.d = "Pointer" /\ target.kind = e.ty.kind
    \/ e.ty.decl.d = "Pointer" /\ target.decl.d = "Pointer"
    \/ e.ty.decl.d = "Pointer" /\ target = HlirType(Long(FALSE), Basic)
    \/ BothNumericBasic(target, e)

\* C12: explicit_cast(target, e) returns Ok exactly when e's type is target, or
\* e is an array of kind K and target is pointer-to-K, or both are pointers, or
\* e is a pointer and target is the signed Long Basic type, or both are numeric
\* kinds with Basic decl; for every other pair it returns Err(()).
C12_ExplicitCastSucceedsOnItsRulesOnly ==
    call.op = "explicit_cast" =>
        IF ExplicitRule(call.cast_ty, call.expr) THEN ret.tag = "Ok" ELSE ret = Err("()")

\* C12 witness: an array of Int was cast to pointer-to-Char and the cast succeeded.
C12_Witness ==
    /\ call.op = "explicit_cast"
    /\ call.expr.ty = HlirType(Int(FALSE), Array(1))
    /\ call.cast_ty = HlirType(Char(FALSE), Pointer)
    /\ ret = Ok(Cast(HlirType(Char(FALSE), Pointer), call.expr))

\* C12 witness: a pointer was cast to the unsigned Long and the cast succeeded.
C12_WitnessUnsignedLong ==
    /\ call.op = "explicit_cast"
    /\ call.expr.ty.decl = Pointer
    /\ call.cast_ty = HlirType(Long(TRUE), Basic)
    /\ ret.tag = "Ok"

\* C12, what the code does outside the numeric pairs: every array source casts
\* to every pointer target, every pointer source to a Long of either
\* signedness, and the pairs the claim lists as failing otherwise fail.
C12_ExplicitCastOutsideTheNumericPairs ==
    (call.op = "explicit_cast" /\ ~BothNumericBasic(call.cast_ty, call.expr)) =>
        IF \/ call.expr.ty = call.cast_ty
           \/ call.expr.ty.decl.d = "Array" /\ call.cast_ty.decl.d = "Pointer"
           \/ call.expr.ty.decl.d = "Pointer" /\ call.cast_ty.decl.d = "Pointer"
           \/ /\ call.expr.ty.decl.d = "Pointer"
              /\ call.cast_ty.kind.k = "Long" /\ call.cast_ty.decl.d = "Basic"
        THEN ret.tag = "Ok"
        ELSE ret = Err("()")

PointerToOtherPointer ==
    /\ call.op = "explicit_cast"
    /\ call.expr.ty.decl = Pointer
    /\ call.cast_ty.decl = Pointer
    /\ call.expr.ty.kind # call.cast_ty.kind

\* C13: explicit_cast of a pointer expression to a pointer type of another
\* element kind returns Ok of one Cast node around the expression, and the type
\* of that node is the requested target: the target's kind with decl Pointer.
C13_PointerCastKeepsThePointer ==
    PointerToOtherPointer => ret = Ok(Cast(call.cast_ty, call.expr))

\* C13 witness: an int* expression was cast to char*; the Cast node returned is
\* typed Char with decl Basic.
C13_Witness ==
    /\ PointerToOtherPointer
    /\ call.expr.ty.kind = Int(FALSE)
    /\ call.cast_ty.kind = Char(FALSE)
    /\ ret = Ok(Cast(HlirType(Char(FALSE), Basic), call.expr))

\* C13, what the code does: one Cast node around the expression, typed with the
\* target's kind and decl Basic.
C13_PointerCastYieldsABasicType ==
    PointerToOtherPointer =>
        ret = Ok(Cast(HlirType(call.cast_ty.kind, Basic), call.expr))

DirectJump(from, to) ==
    \/ from.k = "Double" /\ to.k = "Float"
    \/ from.k = "Float" /\ to.k = "Double"
    \/ from.k = "Int" /\ to.k = "Float"

\* C14: explicit_cast between two different numeric Basic types (Char, Int,
\* Long of either signedness, Float, Double) returns Ok of a Cast chain around
\* the expression whose outermost type is the target, and never reaches an
\* unreachable!(); Double to Float, Float to Double and Int to Float return
\* exactly one Cast node around the expression.
C14_NumericCastsSucceed ==
    (/\ call.op = "explicit_cast"
     /\ BothNumericBasic(call.cast_ty, call.expr)
     /\ call.expr.ty # call.cast_ty)
    => /\ ret.tag = "Ok"
       /\ ret.value.node = "Cast"
       /\ ret.value.ty = call.cast_ty
       /\ Innermost(ret.value) = call.expr
       /\ DirectJump(call.expr.ty.kind, call.cast_ty.kind)
            => ret.value = Cast(call.cast_ty, call.expr)

\* C14 witness: a Float expression was cast to Double and the cast ended in the
\* unreachable!() of get_numeric_cast_hierarchy.
C14_Witness ==
    /\ call.op = "explicit_cast"
    /\ call.expr.ty = HlirType(Float, Basic)
    /\ call.cast_ty = HlirType(Double, Basic)
    /\ ret = Panic

\* C14 witness: Int to Float is one direct Cast.
C14_WitnessDirect ==
    /\ call.op = "explicit_cast"
    /\ call.expr.ty = HlirType(Int(FALSE), Basic)
    /\ call.cast_ty = HlirType(Float, Basic)
    /\ ret = Ok(Cast(call.cast_ty, call.expr))

\* C14, what the code does: a pair with Float aborts unless it is Double to
\* Float or Int to Float; every other numeric pair succeeds with the target
\* as the outermost type.
C14_FloatPairsAbort ==
    (/\ call.op = "explicit_cast"
     /\ BothNumericBasic(call.cast_ty, call.expr)
     /\ call.expr.ty # call.cast_ty)
    => IF \/ call.expr.ty.kind.k \in {"Double", "Int"} /\ call.cast_ty.kind.k = "Float"
          \/ "Float" \notin {call.expr.ty.kind.k, call.cast_ty.kind.k}
       THEN /\ ret.tag = "Ok"
            /\ ret.value.ty = call.cast_ty
            /\ Innermost(ret.value) = call.expr
       ELSE ret = Panic

\* C15: implicit_cast(target, e) with target pointer-to-void and e of any other
\* pointer type returns Ok of exactly one Cast node around e, typed
\* pointer-to-void.
C15_VoidPointerAcceptsAnyPointer ==
    (/\ call.op = "implicit_cast"
     /\ call.cast_ty = HlirType(Void, Pointer)
     /\ call.expr.ty.decl = Pointer
     /\ call.expr.ty.kind # Void)
    => ret = Ok(Cast(HlirType(Void, Pointer), call.expr))

\* C15 witness: an int* expression was handed to a void* target and refused.
C15_Witness ==
    /\ call.op = "implicit_cast"
    /\ call.cast_ty = HlirType(Void, Pointer)
    /\ call.expr.ty = HlirType(Int(FALSE), Pointer)
    /\ ret = Err("()")

\* C15, what the code does: the rule is applied with the two sides exchanged.
\* A void* expression is accepted by every other pointer target, and the Cast
\* node is typed void*, not as the target.
C15_VoidPointerSourceIsAccepted ==
    (/\ call.op = "implicit_cast"
     /\ call.cast_ty.decl = Pointer
     /\ call.expr.ty.decl = Pointer
     /\ call.expr.ty # call.cast_ty)
    => IF call.expr.ty.kind = Void
       THEN ret = Ok(Cast(HlirType(Void, Pointer), call.expr))
       ELSE ret = Err("()")

ArrayToPointer ==
    /\ call.op = "implicit_cast"
    /\ call.expr.ty.decl.d = "Array"
    /\ call.cast_ty.decl = Pointer

\* C16: implicit_cast(target, e) with e an array of kind K, of any size, and
\* target pointer-to-K returns Ok of exactly one Cast node typed pointer-to-K;
\* with e an array of another kind J it fails.
C16_ArrayDecaysToPointerOfItsKind ==
    ArrayToPointer =>
        IF call.expr.ty.kind = call.cast_ty.kind
        THEN ret = Ok(Cast(call.cast_ty, call.expr))
        ELSE ret = Err("()")

\* C16 witness: an Int[2] expression was handed to an int* target and refused.
C16_Witness ==
    /\ ArrayToPointer
    /\ call.expr.ty = HlirType(Int(FALSE), Array(2))
    /\ call.cast_ty = HlirType(Int(FALSE), Pointer)
    /\ ret = Err("()")

\* C16, what the code does: no array decays to a pointer; an array of another
\* kind fails as claimed, and so does an array of the pointer's kind.
C16_NoArrayDecays ==
    ArrayToPointer => ret = Err("()")

ImplicitRule(target, e) ==
    \/ e.ty = target
    \/ target = HlirType(Void, Pointer) /\ e.ty.decl = Pointer
    \/ target.decl = Pointer /\ e.ty.decl.d = "Array" /\ target.kind = e.ty.kind
    \/ BothNumericBasic(target, e)

\* C17: for every pair outside its four rules (equal types; void* target with a
\* pointer source; pointer-to-K target with array-of-K source; both numeric
\* Basic) implicit_cast returns Err(()): it neither succeeds nor aborts.
C17_ImplicitCastFailsOutsideItsRules ==
    (call.op = "implicit_cast" /\ ~ImplicitRule(call.cast_ty, call.expr))
        => ret = Err("()")

\* C17 witness: a Struct expression was handed to an Int target, both Basic,
\* and the cast ended in the unreachable!() of get_numeric_cast_hierarchy.
C17_Witness ==
    /\ call.op = "implicit_cast"
    /\ call.expr.ty.kind.k = "Struct"
    /\ call.expr.ty.decl = Basic
    /\ call.cast_ty = HlirType(Int(FALSE), Basic)
    /\ ret = Panic

\* C17 witness: a pointer expression was handed to an array target of its kind
\* and accepted.
C17_WitnessPointerToArray ==
    /\ call.op = "implicit_cast"
    /\ call.expr.ty = HlirType(Int(FALSE), Pointer)
    /\ call.cast_ty = HlirType(Int(FALSE), Array(1))
    /\ ret = Ok(Cast(HlirType(Int(FALSE), Pointer), call.expr))

\* C17 witness: a void* expression was handed to an int* target and accepted.
C17_WitnessVoidPointerSource ==
    /\ call.op = "implicit_cast"
    /\ call.expr.ty = HlirType(Void, Pointer)
    /\ call.cast_ty = HlirType(Int(FALSE), Pointer)
    /\ ret.tag = "Ok"

\* C17, the pairs that do fail: a source and a target of different decl, other
\* than the two pointer arms of the code, are refused.
C17_MixedDeclsFail ==
    (/\ call.op = "implicit_cast"
     /\ call.expr.ty.decl.d # call.cast_ty.decl.d
     /\ ~(call.cast_ty.decl.d = "Array" /\ call.expr.ty.decl.d = "Pointer"))
    => ret = Err("()")

(***************************************************************************)
(* The rejections of validate_type.                                        *)
(***************************************************************************)
Prefixed(ty) == Len(ty) >= 1 /\ ty[1].t \in {"Signed", "Unsigned"}

\* The number of specifiers the complete type at the head of the list takes,
\* 0 when the list does not begin with a complete type.
CompleteTypeLen(ty) ==
    IF Len(ty) >= 1 /\ ~Prefixed(ty) THEN 1
    ELSE IF Len(ty) >= 2 /\ Prefixed(ty) /\ ty[2].t \in {"Char", "Int", "Long"} THEN 2
    ELSE 0

\* The error the type scan is specified to report for a call, <<>> for none.
ExpectedRejection(ty, pointer, is_function_return_ty) ==
    IF Prefixed(ty) /\ Len(ty) = 1 THEN <<"ExpectedTypeSpecifier">>
    ELSE IF Prefixed(ty) /\ ty[2].t \notin {"Char", "Int", "Long"}
    THEN <<"TypeCannotBeSignedOrUnsigned">>
    ELSE IF CompleteTypeLen(ty) > 0 /\ Len(ty) > CompleteTypeLen(ty)
    THEN <<"InvalidTypeSpecifier">>
    ELSE IF ty = <<[t |-> "Void"]>> /\ ~pointer /\ ~is_function_return_ty
    THEN <<"IncompleteType">>
    ELSE <<>>

\* C18: every rejection by validate_type records exactly one hard error and
\* returns Err: TypeCannotBeSignedOrUnsigned when signed / unsigned is followed
\* by a specifier other than char, int or long, ExpectedTypeSpecifier when
\* signed / unsigned is the last token, InvalidTypeSpecifier when a token
\* remains after a complete type, IncompleteType for void that is neither a
\* pointer nor a return type; void as a pointer or a return type is accepted,
\* and an accepted list records nothing.
C18_RejectionsReportOneError ==
    (call.op = "validate_type" /\ call.declaration.ty # <<>>) =>
        LET expected == ExpectedRejection(call.declaration.ty, call.declaration.pointer,
                                          call.is_function_return_ty)
        IN  IF expected # <<>>
            THEN /\ ret = Err("()")
                 /\ Len(reporter.errors) = 1
                 /\ reporter.errors[1].e = expected[1]
                 /\ reporter.errors[1].span = 0
                 /\ reporter.warnings = <<>>
            ELSE /\ ret.tag = "Ok"
                 /\ reporter.errors = <<>>

\* C18 witness: [Unsigned, Double] was rejected with the single error
\* TypeCannotBeSignedOrUnsigned.
C18_Witness ==
    /\ call.op = "validate_type"
    /\ call.declaration.ty = <<[t |-> "Unsigned"], [t |-> "Double"]>>
    /\ ret = Err("()")
    /\ Len(reporter.errors) = 1
    /\ reporter.errors[1].e = "TypeCannotBeSignedOrUnsigned"

\* C18 witness: [Signed] alone was rejected with ExpectedTypeSpecifier.
C18_WitnessExpected ==
    /\ call.op = "validate_type"
    /\ call.declaration.ty = <<[t |-> "Signed"]>>
    /\ ret = Err("()")
    /\ Len(reporter.errors) = 1
    /\ reporter.errors[1].e = "ExpectedTypeSpecifier"

\* C18 witness: [Void] as a value was rejected with IncompleteType.
C18_WitnessIncomplete ==
    /\ call.op = "validate_type"
    /\ call.declaration.ty = <<[t |-> "Void"]>>
    /\ ~call.declaration.pointer /\ ~call.is_function_return_ty
    /\ ret = Err("()")
    /\ Len(reporter.errors) = 1
    /\ reporter.errors[1].e = "IncompleteType"

\* C18 witness: [Void, Int] as a return type was rejected with
\* InvalidTypeSpecifier, the token after the complete type, and nothing else.
C18_WitnessInvalid ==
    /\ call.op = "validate_type"
    /\ call.declaration.ty = <<[t |-> "Void"], [t |-> "Int"]>>
    /\ ret = Err("()")
    /\ Len(reporter.errors) = 1
    /\ reporter.errors[1].e = "InvalidTypeSpecifier"

\* C18 witness: [Void] as a return type was accepted.
C18_WitnessVoidReturn ==
    /\ call.op = "validate_type"
    /\ call.declaration.ty = <<[t |-> "Void"]>>
    /\ ~call.declaration.pointer /\ call.is_function_return_ty
    /\ ret = Ok(HlirType(Void, Basic))
    /\ reporter.errors = <<>>

(***************************************************************************)
(* Assignment targets and member accesses under test: declarations of      *)
(* variables, functions and structs in nested scopes, and then one         *)
(* resolution against the table they left.                                 *)
(***************************************************************************)
AccessIdents == {"x", "printf"}

Members == {"a", "b"}

CharPointer == HlirType(Char(FALSE), Pointer)

VarTypes == {IntType, CharPointer}

Field(ident, ty) == HlirVariable(0, ty, ident, FALSE, <<>>)

FieldLists ==
    {<<>>, <<Field("a", IntType)>>, <<Field("a", CharPointer), Field("b", IntType)>>}

Accessing ==
    ret # Panic /\ call.op \notin {"check_valid_assignment", "validate_struct_member_access"}

DeclareVariable ==
    /\ Accessing
    /\ hist.decls < MaxDecls
    /\ \E ident \in AccessIdents, ty \in VarTypes, is_const \in BOOLEAN :
        Declared(ident, VariableSymbol(ty, is_const, FALSE, <<>>),
                 add_variable(scope, ident, ty, is_const, FALSE, <<>>, 0))

DeclareFunction ==
    /\ Accessing
    /\ hist.decls < MaxDecls
    /\ \E ident \in AccessIdents :
        Declared(ident, FunctionSymbol(<<>>, IntType, FALSE, Params),
                 add_function(scope, ident, IntType, Params, 0))

DeclareStruct ==
    /\ Accessing
    /\ hist.decls < MaxDecls
    /\ \E ident \in AccessIdents, fields \in FieldLists :
        Declared(ident, HlirStruct(ident, fields, 0),
                 add_struct(scope, HlirType(Struct(ident), Basic),
                            HlirStruct(ident, fields, 0), 0))

EnterScope == Accessing /\ PushScope

CheckValidAssignment ==
    /\ Accessing
    /\ \E ident \in AccessIdents, ty \in VarTypes :
        LET r == check_valid_assignment(scope, ident, ty, 0)
        IN  /\ call' = [op |-> "check_valid_assignment", ident |-> ident, ty |-> ty]
            /\ ret' = r.result
            /\ scope' = r.self
    /\ UNCHANGED <<interner, names, reporter, ast, pc, globals, functions, structs, outcome,
                   hist>>

ValidateStructMemberAccess ==
    /\ Accessing
    /\ \E ident \in AccessIdents, decl \in {Basic, Pointer}, member \in Members :
        LET _struct == [value |-> Variable(HlirType(Struct(ident), decl)), location |-> 0]
            r == validate_struct_member_access(scope, _struct,
                                               [value |-> member, location |-> 1])
        IN  /\ call' = [op |-> "validate_struct_member_access", ident |-> ident,
                        expr |-> _struct.value, member |-> member]
            /\ ret' = r.result
            /\ scope' = r.self
    /\ UNCHANGED <<interner, names, reporter, ast, pc, globals, functions, structs, outcome,
                   hist>>

AccessNext ==
    \/ DeclareVariable
    \/ DeclareFunction
    \/ DeclareStruct
    \/ EnterScope
    \/ CheckValidAssignment
    \/ ValidateStructMemberAccess

SpecAccess == SymInit /\ [][AccessNext]_vars

\* The error an assignment to (ident, ty) is answered with when the name
\* resolves to `near`, given the error of a name that is not a variable.
AssignmentAnswer(near, ty, wrong_kind) ==
    IF near = <<>> THEN <<"IdentNotFound">>
    ELSE IF near[1].sym # "Variable" THEN <<wrong_kind>>
    ELSE IF near[1].ty # ty THEN <<"VariableTypeMismatch">>
    ELSE IF near[1].is_const THEN <<"ConstAssignment">>
    ELSE <<>>

\* C19: resolving an assignment target (name, rhs type) fails with IdentNotFound
\* when no scope of the chain declares the name, with NotAVariable when the name
\* resolves to a function or a struct, with VariableTypeMismatch when the
\* variable's type is not the rhs type, with ConstAssignment when the types are
\* equal and the variable is const, and succeeds exactly when the name resolves
\* to a variable of the rhs type that is not const.
C19_AssignmentTargetResolution ==
    call.op = "check_valid_assignment" =>
        LET answer == AssignmentAnswer(Nearest(scope, call.ident), call.ty, "NotAVariable")
        IN  IF answer = <<>> THEN ret = Ok("()") ELSE IsErr(ret, answer[1])

\* C19 witness: an assignment to the function printf was answered LeftHandNotLVal.
C19_Witness ==
    /\ call.op = "check_valid_assignment"
    /\ call.ident = "printf"
    /\ Nearest(scope, "printf") # <<>>
    /\ Nearest(scope, "printf")[1].sym = "Function"
    /\ IsErr(ret, "LeftHandNotLVal")

\* C19 witness: an assignment to a struct name was answered LeftHandNotLVal.
C19_WitnessStruct ==
    /\ call.op = "check_valid_assignment"
    /\ Nearest(scope, call.ident) # <<>>
    /\ Nearest(scope, call.ident)[1].sym = "Struct"
    /\ IsErr(ret, "LeftHandNotLVal")

\* C19 witness: an assignment to a const variable of the rhs type, declared in
\* an enclosing scope, was answered ConstAssignment.
C19_WitnessConst ==
    /\ call.op = "check_valid_assignment"
    /\ call.ident \notin DOMAIN scope.symbols
    /\ Nearest(scope, call.ident) # <<>>
    /\ Nearest(scope, call.ident)[1].sym = "Variable"
    /\ Nearest(scope, call.ident)[1].ty = call.ty
    /\ IsErr(ret, "ConstAssignment")

\* C19, what the code does: the claim with LeftHandNotLVal as the error of a
\* name that resolves to a function or a struct.
C19_WrongKindIsLeftHandNotLVal ==
    call.op = "check_valid_assignment" =>
        LET answer == AssignmentAnswer(Nearest(scope, call.ident), call.ty, "LeftHandNotLVal")
        IN  IF answer = <<>> THEN ret = Ok("()") ELSE IsErr(ret, answer[1])

\* C20: a member access on an expression of type Struct(S) returns, when S
\* resolves to a registered struct with a field m, a Member node marked lvalue
\* whose type is the type field m was declared with; it fails with
\* MemberNotFound when the struct has no field m, with NotAStruct when S
\* resolves to a symbol that is not a struct and with IdentNotFound when no
\* scope of the chain declares S.
C20_MemberAccessResolution ==
    call.op = "validate_struct_member_access" =>
        LET near == Nearest(scope, call.ident)
        IN  IF near = <<>> THEN IsErr(ret, "IdentNotFound")
            ELSE IF near[1].sym # "Struct" THEN IsErr(ret, "NotAStruct")
            ELSE IF call.member \notin DOMAIN near[1].body
            THEN IsErr(ret, "MemberNotFound")
            ELSE /\ ret.tag = "Ok"
                 /\ ret.value.node = "Member"
                 /\ ret.value.operand = call.expr
                 /\ ret.value.member = call.member
                 /\ ret.value.is_lval
                 /\ ret.value.ty = near[1].body[call.member].ty
                 /\ \E fields \in FieldLists :
                        /\ Len(fields) = Cardinality(DOMAIN near[1].body)
                        /\ \E n \in 1..Len(fields) :
                            /\ fields[n].ident = call.member
                            /\ fields[n].ty = ret.value.ty

\* C20 witness: member a of a struct declared in an enclosing scope with the
\* fields a (char pointer) and b (int) was resolved to an lvalue of type char
\* pointer.
C20_Witness ==
    /\ call.op = "validate_struct_member_access"
    /\ call.member = "a"
    /\ call.ident \notin DOMAIN scope.symbols
    /\ Nearest(scope, call.ident) # <<>>
    /\ Nearest(scope, call.ident)[1].sym = "Struct"
    /\ DOMAIN Nearest(scope, call.ident)[1].body = {"a", "b"}
    /\ ret = Ok(Member(call.expr, "a", CharPointer))

\* C20 witness: member b of a struct that has the field a only.
C20_WitnessMemberNotFound ==
    /\ call.op = "validate_struct_member_access"
    /\ call.member = "b"
    /\ Nearest(scope, call.ident) # <<>>
    /\ Nearest(scope, call.ident)[1].sym = "Struct"
    /\ DOMAIN Nearest(scope, call.ident)[1].body = {"a"}
    /\ IsErr(ret, "MemberNotFound")

\* C20 witness: the struct name of the expression's type resolves to a variable
\* that shadows the struct of an enclosing scope.
C20_WitnessNotAStruct ==
    /\ call.op = "validate_struct_member_access"
    /\ call.ident \in DOMAIN scope.symbols
    /\ scope.symbols[call.ident].sym = "Variable"
    /\ scope.parent # <<>>
    /\ Nearest(scope.parent[1], call.ident) # <<>>
    /\ Nearest(scope.parent[1], call.ident)[1].sym = "Struct"
    /\ IsErr(ret, "NotAStruct")

\* C20 witness: the struct name is declared nowhere.
C20_WitnessIdentNotFound ==
    /\ call.op = "validate_struct_member_access"
    /\ Nearest(scope, call.ident) = <<>>
    /\ IsErr(ret, "IdentNotFound")

(***************************************************************************)
(* The function validator and the scope it runs in.                        *)
(***************************************************************************)
\* The function item calls the function it defines from its own body.
CallsItself(item) ==
    /\ item.item = "Function"
    /\ item.declaration.ident # <<>>
    /\ \E n \in 1..Len(item.body) :
        /\ item.body[n].stmt = "Expression"
        /\ item.body[n].expr.node = "Call"
        /\ item.body[n].expr.ident = item.declaration.ident[1]

\* The function item has a parameter that carries a storage specifier.
HasFailingParameter(item) ==
    /\ item.item = "Function"
    /\ \E n \in 1..Len(item.parameters) : item.parameters[n].specifier.specifiers # <<>>

\* C21: validate_function_definition declares the function, with its return
\* type and parameter types, in the enclosing scope after the parameters are
\* validated and before its own scope is pushed and the body validated: a call
\* of the function from its own body resolves to that Function entry, and a
\* function whose parameter fails is not declared.
C21_FunctionIsDeclaredBeforeItsBody ==
    call.op = "validate_function_definition" =>
        /\ CallsItself(ast[pc - 1]) =>
            LET ident == ast[pc - 1].declaration.ident[1]
            IN  /\ ret.tag = "Ok"
                /\ ret.value.ident = ident
                /\ scope.parent = <<>>
                /\ ident \in DOMAIN scope.symbols
                /\ scope.symbols[ident] = FunctionSymbol(<<>>, IntType, FALSE, <<IntType>>)
                /\ ident \notin DOMAIN scope.un_accessed_items
        /\ (HasFailingParameter(ast[pc - 1]) /\ pc = 2) =>
            /\ ret = Err("()")
            /\ ast[1].declaration.ident[1] \notin DOMAIN scope.symbols

\* C21 witness: the one-item program `int f(int a) { f(1); }` was validated: f
\* is declared in the root scope, was looked up, and the pass returned the
\* program with no warning.
C21_Witness ==
    /\ outcome = "program"
    /\ Len(ast) = 1
    /\ CallsItself(ast[1])
    /\ "f" \in DOMAIN functions
    /\ "f" \in DOMAIN scope.symbols
    /\ reporter.warnings = <<>>
    /\ reporter.errors = <<>>

\* C21 witness: the parameter of `int g(static int a) {}` failed and g was not
\* declared.
C21_WitnessFailingParameter ==
    /\ call.op = "validate_function_definition"
    /\ pc = 2
    /\ HasFailingParameter(ast[1])
    /\ "g" \notin DOMAIN scope.symbols
    /\ ret = Err("()")

(***************************************************************************)
(* flatten_blocks under test: it is handed every block of up to MaxStmts   *)
(* statements, nested blocks counted, built from a label, a goto, a return *)
(* and blocks.                                                             *)
(***************************************************************************)
Block(body) == [stmt |-> "Block", body |-> body]

Atoms == {[stmt |-> "Label", ident |-> "l"], [stmt |-> "Goto", ident |-> "l"],
          [stmt |-> "Return", value |-> <<>>]}

\* The statement sequences of exactly n statements in all.
RECURSIVE HlirBlocks(_)
HlirBlocks(n) ==
    IF n = 0 THEN {<<>>}
    ELSE UNION {
            {<<first>> \o rest :
                first \in (IF k = 1 THEN Atoms ELSE {}) \cup
                          {Block(body) : body \in HlirBlocks(k - 1)},
                rest \in HlirBlocks(n - k)} : k \in 1..n}

FlattenBlocks ==
    /\ call = NoCall
    /\ \E n \in 0..MaxStmts :
        \E hlir_block \in HlirBlocks(n) :
            /\ call' = [op |-> "flatten_blocks", hlir_block |-> hlir_block]
            /\ ret' = Ok(flatten_blocks(hlir_block))
    /\ UNCHANGED <<interner, names, scope, reporter, ast, pc, globals, functions, structs,
                   outcome, hist>>

FlatNext == FlattenBlocks

SpecFlat == SymInit /\ [][FlatNext]_vars

\* The statements of a block that are not blocks, at every depth, in source order.
RECURSIVE Leaves(_)
Leaves(block) ==
    IF block = <<>> THEN <<>>
    ELSE (IF Head(block).stmt = "Block" THEN Leaves(Head(block).body) ELSE <<Head(block)>>)
            \o Leaves(Tail(block))

\* The number of statements of a kind in a block, at every depth.
RECURSIVE CountOf(_, _)
CountOf(atom, block) ==
    IF block = <<>> THEN 0
    ELSE (IF Head(block).stmt = "Block" THEN CountOf(atom, Head(block).body)
          ELSE IF Head(block) = atom THEN 1 ELSE 0)
            + CountOf(atom, Tail(block))

IsFlat(block) == \A n \in 1..Len(block) : block[n].stmt # "Block"

\* C22: flatten_blocks returns a sequence without Block statements that holds
\* exactly the statements of the input that are not blocks, of every depth,
\* each once, in source order, labels and gotos where they were among them;
\* a flat block is returned as it is.
C22_FlattenKeepsTheStatementsInOrder ==
    call.op = "flatten_blocks" =>
        /\ ret.tag = "Ok"
        /\ IsFlat(ret.value)
        /\ ret.value = Leaves(call.hlir_block)
        /\ \A atom \in Atoms :
                Cardinality({n \in 1..Len(ret.value) : ret.value[n] = atom})
                    = CountOf(atom, call.hlir_block)
        /\ IsFlat(call.hlir_block) => ret.value = call.hlir_block
        /\ flatten_blocks(ret.value) = ret.value

\* C22 witness: l: { { goto l; } } was flattened to l: goto l;
C22_Witness ==
    /\ call.op = "flatten_blocks"
    /\ call.hlir_block =
        <<[stmt |-> "Label", ident |-> "l"],
          Block(<<Block(<<[stmt |-> "Goto", ident |-> "l"]>>)>>)>>
    /\ ret = Ok(<<[stmt |-> "Label", ident |-> "l"], [stmt |-> "Goto", ident |-> "l"]>>)

\* C22 witness: a flat block came back unchanged.
C22_WitnessFlat ==
    /\ call.op = "flatten_blocks"
    /\ Len(call.hlir_block) = 3
    /\ IsFlat(call.hlir_block)
    /\ ret = Ok(call.hlir_block)

(***************************************************************************)
(* The declaration validators under test: a fresh validator is handed one  *)
(* declaration, with up to MaxQualifiers storage specifiers and as many    *)
(* qualifiers, and for a variable an array marker, a size and an           *)
(* initializer.                                                            *)
(***************************************************************************)
Repeats(S, max) == UNION {[1..n -> S] : n \in 0..max}

DeclSpecifiers ==
    {DeclarationSpecifier(specifiers, qualifiers, ty, pointer) :
        specifiers \in Repeats({"static", "extern"}, MaxQualifiers),
        qualifiers \in Repeats({"const"}, MaxQualifiers),
        ty \in {<<[t |-> "Int"]>>, <<[t |-> "Void"]>>, <<[t |-> "Int"], [t |-> "Int"]>>},
        pointer \in BOOLEAN}

\* The initializers: none, 1, y (not declared), and { 1, ... } of up to
\* MaxArray elements.
Initializers ==
    {<<>>, <<Literal(IntType)>>, <<[node |-> "Ident", ident |-> "y", location |-> 1]>>}
        \cup {<<[node |-> "ArrayInitializer", elements |-> elements]>> :
                elements \in Repeats({Literal(IntType)}, MaxArray)}

VariableDeclarations ==
    {[item |-> "Declaration", location |-> 0,
      declaration |-> Declaration(specifier, <<"x">>, 0),
      is_array |-> is_array, array_size |-> array_size, initializer |-> initializer] :
        specifier \in DeclSpecifiers, is_array \in BOOLEAN,
        array_size \in {<<>>} \cup {<<n>> : n \in 1..MaxArray},
        initializer \in Initializers}

\* What a call on the validator leaves in the variables.
Called(c, r) ==
    /\ call' = c
    /\ ret' = r.result
    /\ scope' = r.self.scope
    /\ reporter' = r.self.reporter
    /\ UNCHANGED <<interner, names, ast, pc, globals, functions, structs, outcome, hist>>

ProcessDecToHlirVariable ==
    /\ call = NoCall
    /\ \E specifier \in DeclSpecifiers :
        With(Declaration(specifier, <<"x">>, 0), LAMBDA dec :
            Called([op |-> "process_dec_to_hlir_variable", dec |-> dec],
                   process_dec_to_hlir_variable(Self, dec, 0)))

ValidateVariableDeclaration ==
    /\ call = NoCall
    /\ \E var \in VariableDeclarations :
        Called([op |-> "validate_variable_declaration", var |-> var],
               validate_variable_declaration(Self, var))

\* The field lists of a struct S: up to MaxDecls fields named a or S.
StructFields ==
    Repeats({Field(ident, ty) : ident \in {"a", "S"}, ty \in VarTypes}, MaxDecls)

AddStruct ==
    /\ call = NoCall
    /\ \E fields \in StructFields :
        With(add_struct(scope, HlirType(Struct("S"), Basic), HlirStruct("S", fields, 0), 0),
             LAMBDA r :
            Called([op |-> "add_struct", ident |-> "S", fields |-> fields],
                   [self |-> [Self EXCEPT !.scope = r.self], result |-> r.result]))

DeclNext ==
    \/ ProcessDecToHlirVariable
    \/ ValidateVariableDeclaration
    \/ AddStruct

SpecDecl == TypeInit /\ [][DeclNext]_vars

\* The specifier names a type a variable may have.
ValidVariableType(specifier) ==
    \/ specifier.ty = <<[t |-> "Int"]>>
    \/ specifier.ty = <<[t |-> "Void"]>> /\ specifier.pointer

Reported(e) == \E n \in 1..Len(reporter.errors) : reporter.errors[n].e = e

\* The number of elements of an initializer, <<>> when it has no elements.
ElementCount(initializer) ==
    IF initializer # <<>> /\ initializer[1].node = "ArrayInitializer"
    THEN <<Len(initializer[1].elements)>>
    ELSE <<>>

\* C23: validate_variable_declaration on a variable declared as an array fails
\* with ArraySizeNotSpecified exactly when neither a size nor an initializer is
\* given; whenever it succeeds, the variable's type has decl Array(n) with n
\* the explicit size when one is given and otherwise the number of elements of
\* the initializer.
C23_ArraysGetTheirSize ==
    (/\ call.op = "validate_variable_declaration"
     /\ call.var.is_array
     /\ ValidVariableType(call.var.declaration.specifier))
    => /\ (call.var.array_size = <<>> /\ call.var.initializer = <<>>)
            <=> (ret = Err("()") /\ Reported("ArraySizeNotSpecified"))
       /\ ret.tag = "Ok" =>
            /\ ret.value.ty.decl.d = "Array"
            /\ call.var.array_size # <<>> => ret.value.ty.decl.size = call.var.array_size[1]
            /\ call.var.array_size = <<>> =>
                <<ret.value.ty.decl.size>> = ElementCount(call.var.initializer)

\* C23 witness: `int x[] = 1;` was accepted as a variable of type int.
C23_Witness ==
    /\ call.op = "validate_variable_declaration"
    /\ call.var.is_array
    /\ call.var.array_size = <<>>
    /\ call.var.initializer = <<Literal(IntType)>>
    /\ call.var.declaration.specifier.ty = <<[t |-> "Int"]>>
    /\ ~call.var.declaration.specifier.pointer
    /\ ret.tag = "Ok"
    /\ ret.value.ty = IntType
    /\ reporter.errors = <<>>

\* C23 witness: `int x[];` was rejected with ArraySizeNotSpecified.
C23_WitnessNotSpecified ==
    /\ call.op = "validate_variable_declaration"
    /\ call.var.is_array
    /\ call.var.array_size = <<>> /\ call.var.initializer = <<>>
    /\ ret = Err("()")
    /\ Len(reporter.errors) = 1
    /\ reporter.errors[1].e = "ArraySizeNotSpecified"

\* C23, what the code does: the claim holds for every array declaration but
\* the one without a size whose initializer is a single expression; that one
\* succeeds with the type the specifier names, not an array.
C23_ScalarInitializerYieldsNoArray ==
    (/\ call.op = "validate_variable_declaration"
     /\ call.var.is_array
     /\ ValidVariableType(call.var.declaration.specifier))
    => /\ (call.var.array_size = <<>> /\ call.var.initializer = <<>>)
            <=> (ret = Err("()") /\ Reported("ArraySizeNotSpecified"))
       /\ ret.tag = "Ok" =>
            IF call.var.array_size # <<>>
            THEN ret.value.ty.decl = Array(call.var.array_size[1])
            ELSE IF ElementCount(call.var.initializer) # <<>>
            THEN ret.value.ty.decl = Array(ElementCount(call.var.initializer)[1])
            ELSE ret.value.ty.decl =
                    (IF call.var.declaration.specifier.pointer THEN Pointer ELSE Basic)

ConstCount(dec) == Len(dec.specifier.qualifiers)

\* The number of warnings of a kind in the sink.
WarningCount(w) ==
    Cardinality({n \in 1..Len(reporter.warnings) : reporter.warnings[n].w = w})

\* C24: the conversion of a declaration to a variable reports one RedundantUsage
\* warning for each const after the first and one UnsupportedStorageSpecifier
\* warning for each storage specifier, and nothing else; none of these is a
\* hard error or fails the conversion: with a valid type it returns a variable
\* whose is_const is true exactly when the declaration has a const.
C24_QualifiersAndStorageOnlyWarn ==
    call.op = "process_dec_to_hlir_variable" =>
        /\ WarningCount("RedundantUsage")
                = (IF ConstCount(call.dec) = 0 THEN 0 ELSE ConstCount(call.dec) - 1)
        /\ WarningCount("UnsupportedStorageSpecifier") = Len(call.dec.specifier.specifiers)
        /\ Len(reporter.warnings)
                = WarningCount("RedundantUsage") + WarningCount("UnsupportedStorageSpecifier")
        /\ IF ValidVariableType(call.dec.specifier)
           THEN /\ ret.tag = "Ok"
                /\ reporter.errors = <<>>
                /\ ret.value.is_const <=> ConstCount(call.dec) >= 1
                /\ ret.value.ident = "x"
                /\ ret.value.initializer = <<>>
           ELSE /\ ret = Err("()")
                /\ Len(reporter.errors) = 1
                /\ reporter.errors[1].e \in {"IncompleteType", "InvalidTypeSpecifier"}

\* C24 witness: `static extern const const int x` was converted to a const
\* variable with one redundancy warning and two storage warnings.
C24_Witness ==
    /\ call.op = "process_dec_to_hlir_variable"
    /\ call.dec.specifier.specifiers = <<"static", "extern">>
    /\ call.dec.specifier.qualifiers = <<"const", "const">>
    /\ ret.tag = "Ok"
    /\ ret.value.is_const
    /\ Len(reporter.warnings) = 3
    /\ reporter.errors = <<>>

\* C24 witness: without a const the variable is not const and nothing is reported.
C24_WitnessPlain ==
    /\ call.op = "process_dec_to_hlir_variable"
    /\ call.dec.specifier.specifiers = <<>>
    /\ call.dec.specifier.qualifiers = <<>>
    /\ ret.tag = "Ok"
    /\ ~ret.value.is_const
    /\ reporter.warnings = <<>>

\* Two fields of the list have the same name.
HasRepeatedField(fields) ==
    \E m, n \in 1..Len(fields) : m # n /\ fields[m].ident = fields[n].ident

\* C25: add_struct fails with MemberAlreadyExists exactly when two fields of
\* the struct have the same name: fields of pairwise distinct names are
\* accepted, one named as the struct itself included, and a struct with a
\* repeated field name is never registered.
C25_RepeatedFieldsAreRejected ==
    call.op = "add_struct" =>
        IF HasRepeatedField(call.fields)
        THEN IsErr(ret, "MemberAlreadyExists") /\ call.ident \notin DOMAIN scope.symbols
        ELSE /\ ret = Ok("()")
             /\ call.ident \in DOMAIN scope.symbols
             /\ DOMAIN scope.symbols[call.ident].body
                    = {call.fields[n].ident : n \in 1..Len(call.fields)}

\* C25 witness: struct S { int a; char *a; } was registered, with a the char
\* pointer.
C25_Witness ==
    /\ call.op = "add_struct"
    /\ call.fields = <<Field("a", IntType), Field("a", CharPointer)>>
    /\ ret = Ok("()")
    /\ "S" \in DOMAIN scope.symbols
    /\ DOMAIN scope.symbols["S"].body = {"a"}
    /\ scope.symbols["S"].body["a"].ty = CharPointer

\* C25 witness: struct S { int S; int a; } was rejected with MemberAlreadyExists.
C25_WitnessDistinctNames ==
    /\ call.op = "add_struct"
    /\ call.fields = <<Field("S", IntType), Field("a", IntType)>>
    /\ IsErr(ret, "MemberAlreadyExists")
    /\ "S" \notin DOMAIN scope.symbols

\* C25, what the code does: the struct is rejected exactly when a field named
\* as the struct is followed by another field; otherwise it is registered with
\* the last field of each name.
C25_OnlyTheStructNameIsTested ==
    call.op = "add_struct" =>
        IF \E m, n \in 1..Len(call.fields) : m < n /\ call.fields[m].ident = call.ident
        THEN IsErr(ret, "MemberAlreadyExists") /\ call.ident \notin DOMAIN scope.symbols
        ELSE /\ ret = Ok("()")
             /\ \A n \in 1..Len(call.fields) :
                    (\A m \in (n + 1)..Len(call.fields) :
                        call.fields[m].ident # call.fields[n].ident)
                    => scope.symbols[call.ident].body[call.fields[n].ident].ty
                            = call.fields[n].ty

(***************************************************************************)
(* The end of the pass, and what the walk leaves in the root scope.        *)
(***************************************************************************)
\* The block looks up, at some depth, an identifier that no scope declares.
RECURSIVE LooksUpUndeclared(_)
LooksUpUndeclared(block) ==
    \E n \in 1..Len(block) :
        \/ /\ block[n].stmt = "Expression"
           /\ block[n].expr.node = "Ident"
           /\ block[n].expr.ident \in {"x", "y"}
        \/ block[n].stmt = "Block" /\ LooksUpUndeclared(block[n].body)

\* The function item's body looks up an identifier that no scope declares (y is
\* declared nowhere, x only as a top-level variable or as a local of a block
\* that has ended).
BodyFails(item) == item.item = "Function" /\ LooksUpUndeclared(item.body)

\* C26: for every sequence of top-level declarations validate returns the
\* program or the sink and never reaches the abort "Could not match unused
\* ident to type": at the end of the walk every identifier left in the unused
\* set of the root scope is a key of globals, functions or structs, also when
\* a function was registered, its body failed and nothing calls it.
C26_ValidateNeverAborts ==
    /\ outcome # "panic"
    /\ (pc = Len(ast) + 1) =>
            DOMAIN scope.un_accessed_items
                \subseteq (DOMAIN globals \cup DOMAIN functions \cup DOMAIN structs)

\* C26 witness: the one-item program `int f(int a) { y; }`; after the walk f is
\* in the unused set of the root scope and in none of the mappings, and the
\* pass ended in the abort.
C26_Witness ==
    /\ outcome = "panic"
    /\ Len(ast) = 1
    /\ BodyFails(ast[1])
    /\ pc = 2
    /\ "f" \in DOMAIN scope.un_accessed_items
    /\ "f" \notin DOMAIN functions
    /\ globals = <<>> /\ structs = <<>>

\* C26, what holds: the pass aborts only after the walk, and exactly when a
\* function whose body failed is still in the unused set of the root scope;
\* after any other walk every unused identifier is a key of a mapping.
C26_AbortOnlyForAFailedUnusedFunction ==
    /\ (outcome = "panic" =>
            /\ call.op = "validate"
            /\ \E n \in 1..Len(ast) :
                /\ BodyFails(ast[n])
                /\ ast[n].declaration.ident[1] \in DOMAIN scope.un_accessed_items
                /\ ast[n].declaration.ident[1] \notin DOMAIN functions)
    /\ (Returned /\ call.op = "validate") =>
            DOMAIN scope.un_accessed_items
                \subseteq (DOMAIN globals \cup DOMAIN functions \cup DOMAIN structs)

\* C27: when validate_function_definition returns, with Ok or with Err (storage
\* specifier, invalid return type, missing identifier, failing parameter,
\* failing body), the current scope is the scope that was current when it was
\* called, with the entries it had: each push_scope was matched by one
\* pop_scope, and every top-level item is validated with the root scope current.
C27_FunctionValidatorRestoresTheScope ==
    /\ [](scope.parent = <<>>)
    /\ [][call'.op = "validate_function_definition" =>
            /\ ret' # Panic
            /\ scope'.parent = scope.parent
            /\ \A i \in DOMAIN scope.symbols :
                    i \in DOMAIN scope'.symbols /\ scope'.symbols[i] = scope.symbols[i]
            /\ \A i \in DOMAIN scope'.symbols \ DOMAIN scope.symbols :
                    <<i>> = ast[pc].declaration.ident]_vars

\* C27 witness: the body of `int f(int a) { y; }` failed after the function's
\* scope was pushed and a bound in it; the scope was popped (a went with it)
\* and the root scope is current again.
C27_Witness ==
    /\ call.op = "validate_function_definition"
    /\ BodyFails(ast[pc - 1])
    /\ ret = Err("()")
    /\ scope.parent = <<>>
    /\ \E d \in hist.dropped : d.ident = "a"
    /\ "a" \notin DOMAIN scope.symbols

\* C27 witness: a lookup failed inside a nested block of the body, two scopes deep.
C27_WitnessNested ==
    /\ call.op = "validate_function_definition"
    /\ Len(ast[pc - 1].body) = 1
    /\ ast[pc - 1].body[1].stmt = "Block"
    /\ ret = Err("()")
    /\ scope.parent = <<>>

\* C27 witness: the function was rejected for its storage specifier before any
\* scope was pushed, and a second item was then validated in the root scope.
C27_WitnessStorage ==
    /\ pc = 3
    /\ ast[1].item = "Function"
    /\ ast[1].declaration.specifier.specifiers # <<>>
    /\ ast[1].location \in hist.errored
    /\ scope.parent = <<>>

\* The function item passes the checks made before the function is declared:
\* no storage specifier, a valid return type, an identifier, valid parameters.
ReachesDeclaration(item) ==
    /\ item.item = "Function"
    /\ item.declaration.specifier.specifiers = <<>>
    /\ Len(item.declaration.specifier.ty) = 1
    /\ item.declaration.ident # <<>>
    /\ ~HasFailingParameter(item)

\* The n-th item is a function named as a built-in or as an earlier function.
Redeclares(n) ==
    /\ ReachesDeclaration(ast[n])
    /\ \/ ast[n].declaration.ident[1] \in {"printf", "malloc", "free"}
       \/ \E m \in 1..(n - 1) :
            /\ ReachesDeclaration(ast[m])
            /\ ast[m].declaration.ident = ast[n].declaration.ident

\* C28: a top-level function that declares an identifier the root scope
\* already declares (an earlier function, a built-in) leaves an
\* IdentifierExists error at its location in the sink and the pass ends with
\* the sink; no entry of the functions mapping is ever replaced.
C28_RedeclaredFunctionIsAnError ==
    /\ [](\A n \in 1..(pc - 1) :
            Redeclares(n) =>
                /\ \E k \in 1..Len(reporter.errors) :
                    /\ reporter.errors[k].e = "IdentifierExists"
                    /\ reporter.errors[k].span = ast[n].location
                /\ outcome # "program")
    /\ [][\A i \in DOMAIN functions : functions'[i] = functions[i]]_vars

\* C28 witness: in `int f(int a) {}  int f(int a) { a; }` the second f
\* replaced the first in the functions mapping, no error was recorded and the
\* pass returned the program.
C28_Witness ==
    /\ outcome = "program"
    /\ Len(ast) = 2
    /\ Redeclares(2)
    /\ ast[2].declaration.ident = <<"f">>
    /\ DOMAIN functions = {"f"}
    /\ functions["f"].location = ast[2].location
    /\ reporter.errors = <<>>

\* C28 witness: `int printf() {}` was accepted and is in the functions mapping.
C28_WitnessBuiltin ==
    /\ outcome = "program"
    /\ Len(ast) = 1
    /\ "printf" \in DOMAIN functions
    /\ reporter.errors = <<>>

\* C28, what the code does: the function validator never records
\* IdentifierExists, and a function that validates is in the mapping under its
\* name whatever was there.
C28_LaterDefinitionReplaces ==
    /\ \A k \in 1..Len(reporter.errors) :
            reporter.errors[k].e = "IdentifierExists" =>
                \E n \in 1..Len(ast) :
                    ast[n].item # "Function" /\ ast[n].location = reporter.errors[k].span
    /\ (call.op = "validate_function_definition" /\ ret.tag = "Ok") =>
            functions[ret.value.ident].location = ast[pc - 1].location

\* The function item's body is the one statement `x;`.
LooksUpX(item) ==
    /\ item.item = "Function"
    /\ Len(item.body) = 1
    /\ item.body[1].stmt = "Expression"
    /\ item.body[1].expr.node = "Ident"
    /\ item.body[1].expr.ident = "x"

\* C29: a top-level variable that validates is declared as a Variable in the
\* root scope before the next item is validated: a later function body that
\* looks its name up resolves it, a second top-level declaration of the name
\* fails with IdentifierExists, and a global never looked up has one
\* UnusedVariable warning when the pass returns.
C29_GlobalsAreDeclaredInTheRootScope ==
    /\ \A i \in DOMAIN globals :
            /\ i \in DOMAIN scope.symbols
            /\ scope.symbols[i].sym = "Variable"
    /\ (/\ call.op = "validate_function_definition"
        /\ LooksUpX(ast[pc - 1])
        /\ "x" \in DOMAIN globals) => ret.tag = "Ok"
    /\ (/\ call.op = "validate_variable_declaration"
        /\ pc = 3
        /\ ast[1].item = "Declaration"
        /\ ast[1].location \notin hist.errored)
            => ret = Err("()") /\ Reported("IdentifierExists")
    /\ Returned =>
            \A i \in DOMAIN globals :
                i \in DOMAIN scope.un_accessed_items
                    => Warned("UnusedVariable", globals[i].location) = 1

\* C29 witness: in `int x;  int f(int a) { x; }` the lookup of x from the body
\* of f failed with IdentNotFound although x is in the globals mapping.
C29_Witness ==
    /\ call.op = "validate_function_definition"
    /\ pc = 3
    /\ LooksUpX(ast[2])
    /\ "x" \in DOMAIN globals
    /\ "x" \notin DOMAIN scope.symbols
    /\ ret = Err("()")
    /\ reporter.errors[Len(reporter.errors)].e = "IdentNotFound"

\* C29 witness: `int x;  int x;` was accepted twice and the pass returned the
\* program without a warning.
C29_WitnessTwice ==
    /\ outcome = "program"
    /\ Len(ast) = 2
    /\ ast[1].item = "Declaration" /\ ast[2].item = "Declaration"
    /\ globals["x"].location = ast[2].location
    /\ reporter.errors = <<>>
    /\ reporter.warnings = <<>>

\* C29, what the code does: no top-level variable is ever in the root scope,
\* so none is found by a lookup, none collides and none is warned about.
C29_GlobalsAreInNoScope ==
    /\ \A i \in DOMAIN scope.symbols : scope.symbols[i].sym # "Variable"
    /\ (call.op = "validate_function_definition" /\ LooksUpX(ast[pc - 1]))
            => ret = Err("()")
    /\ ~Reported("MainIsReserved")
    /\ \A n \in 1..Len(reporter.warnings) : reporter.warnings[n].w # "UnusedVariable"

(***************************************************************************)
(* Errors returned and errors reported.                                    *)
(***************************************************************************)
\* The last step was the validation of a top-level item, and it returned Err:
\* validate leaves the item out of globals, functions and structs.
LeftOut ==
    /\ call.op \in {"validate_variable_declaration", "validate_function_definition",
                    "validate_struct_definition"}
    /\ ret.tag = "Err"

\* The walk is past a top-level item that reported an error and is in none of
\* globals, functions and structs.
SomeItemLeftOut ==
    \E n \in 1..(pc - 1) :
        /\ ast[n].location \in hist.errored
        /\ ast[n].location \notin Inserted

\* C30: a validator that returns Err appended at least one hard error to the
\* sink during that call, hence once a top-level item was left out of the
\* output mappings the pass ends with the diagnostics-only outcome.
C30_LeftOutItemForcesTheSink ==
    /\ [][LeftOut' => Len(reporter'.errors) > Len(reporter.errors)]_vars
    /\ [](LeftOut => SomeItemLeftOut)
    /\ [](SomeItemLeftOut => outcome \in {"none", "sink"})

\* C30 witness: in `int f(int a) { y; }  int x;` the function was left out of
\* the mappings with an error in the sink, and the pass aborted after the walk.
C30_Witness ==
    /\ outcome = "panic"
    /\ Len(ast) = 2
    /\ BodyFails(ast[1])
    /\ ast[2].item = "Declaration"
    /\ ast[1].location \in hist.errored
    /\ ast[1].location \notin Inserted
    /\ reporter.errors # <<>>

\* C30 witness: a function item whose parameter failed was left out, and the
\* pass returned the sink.
C30_WitnessSink ==
    /\ outcome = "sink"
    /\ \E n \in 1..Len(ast) :
            /\ HasFailingParameter(ast[n])
            /\ ast[n].location \in hist.errored
            /\ ast[n].location \notin Inserted

\* C30, what holds of the pass: an item is left out only with a new error in
\* the sink, and from then on the pass never returns the program.
C30_LeftOutItemNeverYieldsTheProgram ==
    /\ [][LeftOut' => Len(reporter'.errors) > Len(reporter.errors)]_vars
    /\ [](LeftOut => SomeItemLeftOut)
    /\ [](SomeItemLeftOut => outcome # "program" /\ reporter.errors # <<>>)

\* C30, what holds of validate_type: Ok leaves the sink as it was (empty), Err
\* comes with one hard error.
C30_ValidateTypeReportsItsErrors ==
    call.op = "validate_type" =>
        /\ ret.tag = "Ok" => reporter = Reporter
        /\ ret.tag = "Err" => Len(reporter.errors) = 1

\* C30, what holds of the declaration validators: Err comes with a hard error.
C30_DeclarationValidatorsReportTheirErrors ==
    (call.op \in {"process_dec_to_hlir_variable", "validate_variable_declaration"}
        /\ ret.tag = "Err") => reporter.errors # <<>>

====
